---- MODULE Spec2Model ----
(***************************************************************************)
(* Model of the Sunder backend core (src-tauri/src): the SQLite store with *)
(* its coupled tables, the note repository, the embedding indexer, the     *)
(* similarity cache, the reindex guard, the connection discipline and the  *)
(* settings service.                                                       *)
(*                                                                         *)
(* Granularity: every SQL statement executed through conn.execute is one   *)
(* autocommitted step (the services open no transaction); a function that  *)
(* holds the write MutexGuard keeps write_holder until it returns.         *)
(***************************************************************************)
EXTENDS Integers, Sequences, FiniteSets, Bags, TLC

VARIABLES
    notes,            \* table notes: id -> [rowid, title, content, file_path]
    notes_fts,        \* FTS5 shadow: bag of [rowid, title, content]
    embeddings,       \* table embeddings: note_id -> vector blob
    vec_embeddings,   \* virtual table vec_embeddings: note_id -> embedding blob
    similarity_cache, \* table similarity_cache: set of [note_id_a, note_id_b, similarity]
    settings,         \* table settings: key -> value
    files,            \* watched directory on disk: path -> file or NoFile
    nextId,           \* next time-ordered uuid (Uuid::now_v7)
    write_holder,     \* thread holding DatabaseManager.write_conn, or NoThread
    read_holders,     \* threads holding a connection of DatabaseManager.read_pool
    reindexing,       \* EmbeddingService.reindexing (AtomicBool)
    pc,               \* thread -> position in the function it executes
    loc,              \* thread -> local variables of that function
    result,           \* thread -> outcome of the last finished call
    progress,         \* reindex thread -> calls made, progress_callback invocations
    watcher,          \* FileWatcherService.watcher: Option<WatcherState>
    live,             \* OS watchers (with their handler threads) not yet dropped
    rx,               \* channel of the handler thread: events sent, not yet received
    pending_paths,    \* handler thread: pending_paths
    last_event,       \* handler thread: last_event.elapsed() in ms, capped
    waited,           \* handler thread: ms spent in the current recv_timeout, capped
    search,           \* SearchService::search: the call's inputs and its output
    link_cache,       \* LinkService.cache: the LRU entries, most recently used first
    latent,           \* compute_latent_links: the last call and the count of other contents
    graph,            \* GraphService: what get_graph or rebuild_full_cache last returned
    store,            \* the database file under DatabaseManager::initialize
    snapshot,         \* the embedding tables as the last indexing task found them
    locks             \* thread -> the guards it holds and the lock steps it has left

vars == <<notes, notes_fts, embeddings, vec_embeddings, similarity_cache, settings,
          files, nextId, write_holder, read_holders, reindexing, pc, loc, result,
          progress, watcher, live, rx, pending_paths, last_event, waited, search,
          link_cache, latent, graph, store, snapshot, locks>>

-----------------------------------------------------------------------------
(* Bounds and value sets *)

MaxNotes == 2

NoThread == "none"
NoFile == "none"
NoTitle == "none"

EditorThreads == {"e1"}
TaskThreads == {"b1", "b2"}
\* the task threads that the commands spawn their tasks on
SpawnSlots == {"b1"}
WatcherThreads == {"w"}
GraphThreads == {"g"}
ReindexThreads == {"r1", "r2"}
StoreThreads == {"s1", "s2", "s3", "s4", "s5", "s6"}
SettingsThreads == {"u"}
\* IPC callers of set_watch_directory, the handler thread spawned by
\* start_watching, and an IPC caller whose outcomes are recorded
StartThreads == {"k1", "k2"}
HandlerThreads == {"h"}
ApiThreads == {"v"}
Threads == EditorThreads \cup TaskThreads \cup WatcherThreads \cup GraphThreads
           \cup ReindexThreads \cup StoreThreads \cup SettingsThreads
           \cup StartThreads \cup HandlerThreads \cup ApiThreads
\* threads that run the IPC commands of lib.rs
CommandThreads == EditorThreads \cup ApiThreads
\* threads that run import_md_file / process_file_change
ImportThreads == WatcherThreads \cup StartThreads \cup HandlerThreads
\* threads that call these from a loop over paths and go on with the next path
LoopThreads == StartThreads \cup HandlerThreads

Titles == {"T1"}
\* a content is its sequence of whitespace-separated tokens
Contents == { <<"a">>, <<"a", "b", "c">>, <<"b", "c", "d">> }
Paths == {"x.md"}
\* every markdown file of the watched directory
AllPaths == Paths \cup {"z.md"}

-----------------------------------------------------------------------------
(* Pure functions *)

split_whitespace_count(content) == Len(content)

\* Stand-in for the transformer: a unit vector (scaled by 5) that depends on
\* the text only.
embed_text(content) ==
    IF content[1] = "a" THEN <<3, 4>> ELSE <<4, 3>>

\* little-endian bytes of each component (two bytes per component here)
embedding_to_blob(embedding) ==
    [i \in 1..(2 * Len(embedding)) |->
        IF i % 2 = 1 THEN embedding[(i + 1) \div 2] % 256
                     ELSE embedding[i \div 2] \div 256]

blob_to_embedding(blob) ==
    [i \in 1..(Len(blob) \div 2) |-> blob[2 * i - 1] + 256 * blob[2 * i]]

RECURSIVE SumTo(_, _)
SumTo(f, n) == IF n = 0 THEN 0 ELSE f[n] + SumTo(f, n - 1)

Dot(a, b) ==
    LET m == IF Len(a) < Len(b) THEN Len(a) ELSE Len(b)
    IN  SumTo([i \in 1..m |-> a[i] * b[i]], m)

ISqrt(n) == CHOOSE r \in 0..n : r * r <= n /\ (r + 1) * (r + 1) > n

\* cosine similarity in hundredths
cosine_similarity(a, b) ==
    LET norm_a == ISqrt(Dot(a, a))
        norm_b == ISqrt(Dot(b, b))
    IN  IF norm_a > 0 /\ norm_b > 0
        THEN (100 * Dot(a, b)) \div (norm_a * norm_b)
        ELSE 0

-----------------------------------------------------------------------------
(* The schema: statements, triggers and constraints *)

FtsRow(r) == [rowid |-> r.rowid, title |-> r.title, content |-> r.content]

\* trigger notes_ai
notes_ai(fts, new) == fts (+) SetToBag({FtsRow(new)})

\* trigger notes_ad: the FTS5 'delete' command removes the entry
notes_ad(fts, old) == fts (-) SetToBag({FtsRow(old)})

\* trigger notes_au
notes_au_insert_only(fts, old, new) == notes_ai(fts, new)
notes_au(fts, old, new) == notes_ai(notes_ad(fts, old), new)

\* rowid of a rowid table without AUTOINCREMENT: largest rowid + 1
NewRowid(tbl) ==
    IF DOMAIN tbl = {} THEN 1
    ELSE 1 + CHOOSE m \in {tbl[i].rowid : i \in DOMAIN tbl} :
                 \A i \in DOMAIN tbl : tbl[i].rowid <= m

Remove(f, k) == [x \in DOMAIN f \ {k} |-> f[x]]
PutOrRemove(f, k, v) == IF k \in DOMAIN f THEN Remove(f, k) ELSE f @@ (k :> v)
Put(f, k, v) == [x \in DOMAIN f \cup {k} |-> IF x = k THEN v ELSE f[x]]

\* SELECT ... FROM notes WHERE file_path = ?1 (file_path is UNIQUE)
NoteIdByPath(tbl, path) ==
    IF \E i \in DOMAIN tbl : tbl[i].file_path = path
    THEN CHOOSE i \in DOMAIN tbl : tbl[i].file_path = path
    ELSE 0

\* CHECK (note_id_a < note_id_b) of similarity_cache
CheckOrdered(a, b) == a < b

\* the canonical ordering both rebuilds apply before inserting
CanonicalPair(x, y) == IF x < y THEN <<x, y>> ELSE <<y, x>>

\* DELETE FROM similarity_cache WHERE note_id_a = ?1 OR note_id_b = ?1
DeleteEdgesOf(cache, id) ==
    {r \in cache : r.note_id_a # id /\ r.note_id_b # id}

EdgeRow(p, s) == [note_id_a |-> p[1], note_id_b |-> p[2], similarity |-> s]

SameKey(r, p) == r.note_id_a = p[1] /\ r.note_id_b = p[2]

-----------------------------------------------------------------------------
(* DatabaseManager (db/mod.rs): the write mutex and the read pool *)

\* Pool::builder().max_size(4)
max_size == 4

\* Mutex::lock returns when no thread holds the guard
MutexFree(holder) == holder = NoThread

\* Pool::get returns a connection while fewer than max_size are checked out
PoolHasIdleOffByOne(holders) == Cardinality(holders) <= max_size
PoolHasIdle(holders) == Cardinality(holders) < max_size

-----------------------------------------------------------------------------
(* Thread bookkeeping *)

None == [some |-> FALSE]
Some(v) == [some |-> TRUE, v |-> v]

\* no search call made yet
NoSearch == [called |-> FALSE]
NoCall == [called |-> FALSE]
\* no compute_latent_links call yet; others and used count the other contents
NoLinks == [called |-> FALSE, others |-> 0, used |-> 0]
\* MIGRATIONS: the version and the number of statements of each SQL batch
MIGRATIONS ==
    << [version |-> 1, statements |-> 3], [version |-> 2, statements |-> 4],
       [version |-> 3, statements |-> 1], [version |-> 4, statements |-> 1],
       [version |-> 5, statements |-> 6] >>

\* what the statements of a batch create: <<version, k>> for its k-th statement
Objects(m) == {<<m.version, k>> : k \in 1..m.statements}

\* a database file: whether it has the migrations table, the versions that
\* table records, and the objects in it; then what the last run_all on it
\* returned and the versions it applied, in order, and the number of runs
Database(migrations_table, versions, objects) ==
    [called |-> FALSE, migrations_table |-> migrations_table, versions |-> versions,
     objects |-> objects, outcome |-> "none", applied |-> 0, log |-> <<>>, runs |-> 0]

\* a file that does not exist yet
Fresh == Database(FALSE, {}, {})

\* the database file after DatabaseManager::initialize: every migration applied
Migrated ==
    Database(TRUE, {MIGRATIONS[i].version : i \in DOMAIN MIGRATIONS},
             UNION {Objects(MIGRATIONS[i]) : i \in DOMAIN MIGRATIONS})

DefaultLoc ==
    [id |-> 0, title |-> NoTitle, content |-> <<>>, path |-> NoFile,
     blob |-> <<>>, vec |-> <<>>, others |-> <<>>, todo |-> <<>>,
     snap |-> <<>>, indexed |-> 0, total |-> 0, res |-> "none"]

IsFree(b) == pc[b] = "idle"

\* std::thread::spawn of the background indexing closure (lib.rs): the
\* model has one slot per SpawnSlots member
FreeTask == CHOOSE b \in SpawnSlots : IsFree(b)

NeedsIndex(content) == split_whitespace_count(content) >= 3

\* where a thread continues when index_note returns
AfterIndexAlwaysRebuild(p, ok) == "rb_read"
AfterIndex(p, ok) ==
    IF p \in ReindexThreads THEN (IF ok THEN "rx_progress" ELSE "rx_store")
    ELSE IF p \in ImportThreads THEN "rb_read"       \* let _ = emb.index_note(..)
    ELSE IF ok THEN "rb_read" ELSE "idle"            \* closure returns on Err

\* where a thread continues when rebuild_cache_for_note returns
AfterRebuild(p) == "idle"

\* threads whose last outcome the model records
ResultThreads == ReindexThreads \cup SettingsThreads \cup StoreThreads
                 \cup StartThreads \cup ApiThreads

Record(p, r) ==
    result' = IF p \in ResultThreads THEN [result EXCEPT ![p] = r] ELSE result

\* the call returns to the command's caller
Return(p, r) ==
    /\ pc' = [pc EXCEPT ![p] = "idle"]
    /\ loc' = [loc EXCEPT ![p] = DefaultLoc]
    /\ Record(p, r)

\* loop head of a thread that processes a list of paths
LoopLabel(p) == IF p \in StartThreads THEN "scan_loop" ELSE "drain"

\* the function a thread executes returns r: a command returns to its
\* caller; the scan and the handler's drain log or ignore r and go on
Finish(p, r) ==
    IF p \in LoopThreads
    THEN /\ pc' = [pc EXCEPT ![p] = LoopLabel(p)]
         /\ loc' = [loc EXCEPT ![p] = [DefaultLoc EXCEPT !.todo = loc[p].todo]]
         /\ UNCHANGED result
    ELSE Return(p, r)

Goto(p, label) == pc' = [pc EXCEPT ![p] = label]

DbVars == <<notes, notes_fts, embeddings, vec_embeddings, similarity_cache, settings>>
OtherVars == <<files, nextId, read_holders, reindexing, progress>>
HandlerVars == <<rx, pending_paths, last_event, waited>>
WatchVars == <<watcher, live>>
LinkVars == <<link_cache, latent>>
ExtraVars == <<graph, store, snapshot, locks>>
ServiceVars == <<WatchVars, HandlerVars, search, LinkVars, ExtraVars>>

-----------------------------------------------------------------------------
(* NoteService (services/note.rs) *)

\* str::trim and str::len on the titles of the model: "  " is blank, " T1 "
\* has surrounding spaces, "T500" and "T501" stand for titles of 500 and 501
\* bytes
trim(s) ==
    CASE s = "  " -> ""
      [] s = " T1 " -> "T1"
      [] OTHER -> s

str_len(s) ==
    CASE s = "" -> 0
      [] s \in {"x", "z"} -> 1
      [] s \in {"  ", "T1"} -> 2
      [] s = " T1 " -> 4
      [] s = "T500" -> 500
      [] s = "T501" -> 501
      [] OTHER -> 8

max_title_len == 500
max_content_len == 2 * 1024 * 1024

\* the bytes of a token: "big" and "huge" stand for tokens that bring a
\* content of two tokens to exactly 2 MiB and a content of one token past it
TokenLen(t) ==
    CASE t = "big" -> max_content_len - 2
      [] t = "huge" -> max_content_len + 1
      [] OTHER -> 1

\* String::len of a content whose tokens are separated by one space
RECURSIVE content_len(_)
content_len(content) ==
    IF content = <<>> THEN 0
    ELSE TokenLen(Head(content)) + (IF Len(content) > 1 THEN 1 ELSE 0)
         + content_len(Tail(content))

\* the title checks of create_note and update_note, on the trimmed title
TitleAcceptedAlways(title) == TRUE
TitleAccepted(title) == title # "" /\ str_len(title) <= max_title_len

\* the content check of create_note and update_note
ContentAccepted(content) == content_len(content) <= max_content_len

\* INSERT INTO notes ...; false on a UNIQUE(file_path) violation
InsertAllowed(tbl, file_path) ==
    file_path = NoFile \/ NoteIdByPath(tbl, file_path) = 0

\* the outcome of create_note: the validations, then the INSERT, whose
\* rusqlite error becomes SunderError::DatabaseError
create_result(tbl, title, content, file_path) ==
    IF ~TitleAccepted(trim(title)) THEN "ValidationError"
    ELSE IF ~ContentAccepted(content) THEN "ContentTooLarge"
    ELSE IF ~InsertAllowed(tbl, file_path) THEN "DatabaseError"
    ELSE "Ok"

NewNote(tbl, title, content, file_path) ==
    [rowid |-> NewRowid(tbl), title |-> title, content |-> content,
     file_path |-> file_path, word_count |-> split_whitespace_count(content)]

\* create_note: the validations, then one INSERT under the write guard
create_note(p, title, content, file_path) ==
    /\ create_result(notes, title, content, file_path)
          \in {"Ok", "DatabaseError"} => MutexFree(write_holder)
    /\ nextId <= MaxNotes
    /\ IF create_result(notes, title, content, file_path) = "Ok"
       THEN LET new == NewNote(notes, trim(title), content, file_path) IN
            /\ notes' = Put(notes, nextId, new)
            /\ notes_fts' = notes_ai(notes_fts, new)
            /\ nextId' = nextId + 1
       ELSE UNCHANGED <<notes, notes_fts, nextId>>

\* lib.rs create_note: the service call, then the spawn of the indexing task
cmd_create_note(p, title, content, file_path) ==
    /\ p \in CommandThreads /\ pc[p] = "idle"
    /\ NeedsIndex(content) => \E b \in SpawnSlots : IsFree(b)
    /\ create_note(p, title, content, file_path)
    /\ IF create_result(notes, title, content, file_path) = "Ok"
       THEN /\ Record(p, "Ok")
            /\ IF NeedsIndex(content)
               THEN /\ pc' = [pc EXCEPT ![FreeTask] = "idx1"]
                    /\ loc' = [loc EXCEPT ![FreeTask] =
                                 [DefaultLoc EXCEPT !.id = nextId, !.content = content]]
               ELSE UNCHANGED <<pc, loc>>
       ELSE /\ Record(p, create_result(notes, title, content, file_path))
            /\ UNCHANGED <<pc, loc>>
    /\ UNCHANGED <<embeddings, vec_embeddings, similarity_cache, settings, files,
                   write_holder, read_holders, reindexing, progress>>
    /\ UNCHANGED ServiceVars

\* update_note, first part: get_note(id) and the validation of the new values
update_get(p, id, title, content) ==
    /\ IF id \notin DOMAIN notes
       THEN Finish(p, "NotFound")
       ELSE IF title.some /\ ~TitleAccepted(trim(title.v))
       THEN Finish(p, "ValidationError")
       ELSE IF content.some /\ ~ContentAccepted(content.v)
       THEN Finish(p, "ContentTooLarge")
       ELSE /\ loc' = [loc EXCEPT ![p] =
                         [DefaultLoc EXCEPT
                            !.id = id,
                            !.title = IF title.some THEN trim(title.v)
                                      ELSE notes[id].title,
                            !.content = IF content.some THEN content.v
                                        ELSE notes[id].content,
                            !.path = loc[p].path,
                            !.todo = loc[p].todo]]
            /\ Goto(p, "upd_write")
            /\ UNCHANGED result
    /\ UNCHANGED <<DbVars, OtherVars, write_holder>>
    /\ UNCHANGED ServiceVars

cmd_update_note(p, id, title, content) ==
    /\ p \in CommandThreads /\ pc[p] = "idle"
    /\ update_get(p, id, title, content)

\* UPDATE notes SET ... WHERE id = ?5 (no row: nothing happens, no trigger)
UpdateRowKeepingCount(tbl, id, title, content) ==
    IF id \in DOMAIN tbl
    THEN [tbl EXCEPT ![id] = [@ EXCEPT !.title = title, !.content = content]]
    ELSE tbl
UpdateRow(tbl, id, title, content) ==
    IF id \in DOMAIN tbl
    THEN [tbl EXCEPT ![id] = [@ EXCEPT !.title = title, !.content = content,
                                       !.word_count = split_whitespace_count(content)]]
    ELSE tbl

\* update_note, second part: the UPDATE under the write guard; then the
\* caller's continuation (lib.rs update_note spawns the task, the watcher
\* import returns Ok(true))
update_write(p) ==
    /\ pc[p] = "upd_write"
    /\ MutexFree(write_holder)
    /\ p \in CommandThreads /\ NeedsIndex(loc[p].content)
          => \E b \in SpawnSlots : IsFree(b)
    /\ notes' = UpdateRow(notes, loc[p].id, loc[p].title, loc[p].content)
    /\ notes_fts' = IF loc[p].id \in DOMAIN notes
                    THEN notes_au(notes_fts, notes[loc[p].id], notes'[loc[p].id])
                    ELSE notes_fts
    /\ IF p \in CommandThreads
       THEN /\ Record(p, "Ok")
            /\ IF NeedsIndex(loc[p].content)
               THEN /\ pc' = [pc EXCEPT ![p] = "idle", ![FreeTask] = "idx1"]
                    /\ loc' = [loc EXCEPT ![p] = DefaultLoc,
                                 ![FreeTask] = [DefaultLoc EXCEPT
                                     !.id = loc[p].id, !.content = loc[p].content]]
               ELSE /\ pc' = [pc EXCEPT ![p] = "idle"]
                    /\ loc' = [loc EXCEPT ![p] = DefaultLoc]
       ELSE /\ Goto(p, "w_lookup")
            /\ UNCHANGED <<loc, result>>
    /\ UNCHANGED <<embeddings, vec_embeddings, similarity_cache, settings,
                   OtherVars, write_holder>>
    /\ UNCHANGED ServiceVars

\* DELETE FROM notes WHERE id = ?1: trigger notes_ad, and the cascade of
\* embeddings.note_id REFERENCES notes(id) ON DELETE CASCADE.  The virtual
\* table vec_embeddings has no foreign key.
DeleteNotesRowSkipped(id) == UNCHANGED <<notes, notes_fts, embeddings>>
DeleteNotesRow(id) ==
    /\ notes' = Remove(notes, id)
    /\ notes_fts' = IF id \in DOMAIN notes THEN notes_ad(notes_fts, notes[id])
                    ELSE notes_fts
    /\ embeddings' = Remove(embeddings, id)

\* NoteService::delete_note, first part: get_note(id)
delete_get(p) ==
    /\ pc[p] = "del_get"
    /\ IF loc[p].id \in DOMAIN notes
       THEN /\ loc' = [loc EXCEPT ![p].path = notes[loc[p].id].file_path]
            /\ Goto(p, "del_row")
            /\ UNCHANGED result
       ELSE Finish(p, "NotFound")
    /\ UNCHANGED <<DbVars, OtherVars, write_holder>>
    /\ UNCHANGED ServiceVars

\* NoteService::delete_note, second part: the DELETE, then remove_file
delete_row(p) ==
    /\ pc[p] = "del_row"
    /\ MutexFree(write_holder)
    /\ DeleteNotesRow(loc[p].id)
    /\ files' = IF loc[p].path # NoFile
                THEN [files EXCEPT ![loc[p].path] = None]
                ELSE files
    /\ Finish(p, "Ok")
    /\ UNCHANGED <<vec_embeddings, similarity_cache, settings, nextId,
                   read_holders, reindexing, progress, write_holder>>
    /\ UNCHANGED ServiceVars

-----------------------------------------------------------------------------
(* EmbeddingService (services/embedding.rs) *)

IndexThreads == TaskThreads \cup ImportThreads \cup ReindexThreads

\* foreign key of embeddings.note_id (PRAGMA foreign_keys = ON on write_conn)
ForeignKeyOk(tbl, note_id) == note_id \in DOMAIN tbl

\* index_note: embed_text, get_write_conn, then statement 1,
\* INSERT OR REPLACE INTO embeddings.  A failing statement returns the error
\* and drops the guard.
index_upsert(p) ==
    /\ p \in IndexThreads /\ pc[p] = "idx1"
    /\ MutexFree(write_holder)
    /\ LET blob == embedding_to_blob(embed_text(loc[p].content)) IN
       IF ForeignKeyOk(notes, loc[p].id)
       THEN /\ embeddings' = Put(embeddings, loc[p].id, blob)
            /\ write_holder' = p
            /\ loc' = [loc EXCEPT ![p].blob = blob]
            /\ Goto(p, "idx2")
            /\ UNCHANGED result
       ELSE /\ UNCHANGED <<embeddings, write_holder>>
            /\ IF AfterIndex(p, FALSE) = "idle"
               THEN Finish(p, "DatabaseError")
               ELSE /\ Goto(p, AfterIndex(p, FALSE))
                    /\ loc' = [loc EXCEPT ![p].res = "DatabaseError"]
                    /\ UNCHANGED result
    /\ UNCHANGED <<notes, notes_fts, vec_embeddings, similarity_cache, settings,
                   OtherVars>>
    /\ UNCHANGED ServiceVars

\* index_note, statement 2: DELETE FROM vec_embeddings WHERE note_id = ?1
index_vec_delete(p) ==
    /\ p \in IndexThreads /\ pc[p] = "idx2"
    /\ write_holder = p
    /\ vec_embeddings' = Remove(vec_embeddings, loc[p].id)
    /\ Goto(p, "idx3")
    /\ UNCHANGED <<notes, notes_fts, embeddings, similarity_cache, settings,
                   OtherVars, write_holder, loc, result>>
    /\ UNCHANGED ServiceVars

\* index_note, statement 3: INSERT INTO vec_embeddings; the guard is dropped
\* on return
index_vec_insert(p) ==
    /\ p \in IndexThreads /\ pc[p] = "idx3"
    /\ write_holder = p
    /\ vec_embeddings' = Put(vec_embeddings, loc[p].id, loc[p].blob)
    /\ write_holder' = NoThread
    /\ Goto(p, AfterIndex(p, TRUE))
    /\ UNCHANGED <<notes, notes_fts, embeddings, similarity_cache, settings,
                   OtherVars, loc, result>>
    /\ UNCHANGED ServiceVars

RemoveThreads == CommandThreads \cup WatcherThreads \cup HandlerThreads

\* remove_embedding, statement 1: DELETE FROM embeddings
remove_embedding_1(p) ==
    /\ p \in RemoveThreads /\ pc[p] = "rm1"
    /\ MutexFree(write_holder)
    /\ embeddings' = Remove(embeddings, loc[p].id)
    /\ write_holder' = p
    /\ Goto(p, "rm2")
    /\ UNCHANGED <<notes, notes_fts, vec_embeddings, similarity_cache, settings,
                   OtherVars, loc, result>>
    /\ UNCHANGED ServiceVars

\* remove_embedding, statement 2: DELETE FROM vec_embeddings; then the caller
\* goes on: lib.rs delete_note calls NoteService::delete_note, the watcher
\* deletes the row itself
remove_embedding_2(p) ==
    /\ p \in RemoveThreads /\ pc[p] = "rm2"
    /\ write_holder = p
    /\ vec_embeddings' = Remove(vec_embeddings, loc[p].id)
    /\ write_holder' = NoThread
    /\ Goto(p, IF p \in CommandThreads THEN "del_get" ELSE "w_delrow")
    /\ UNCHANGED <<notes, notes_fts, embeddings, similarity_cache, settings,
                   OtherVars, loc, result>>
    /\ UNCHANGED ServiceVars

\* lib.rs delete_note(id): remove_embedding(id), then note_service.delete_note(id)
cmd_delete_note(p, id) ==
    /\ p \in CommandThreads /\ pc[p] = "idle"
    /\ loc' = [loc EXCEPT ![p] = [DefaultLoc EXCEPT !.id = id]]
    /\ Goto(p, "rm1")
    /\ UNCHANGED <<DbVars, OtherVars, write_holder, result>>
    /\ UNCHANGED ServiceVars

-----------------------------------------------------------------------------
(* GraphService (services/graph.rs) *)

RebuildThreads == TaskThreads \cup ImportThreads

\* INSERT OR REPLACE INTO similarity_cache of the canonical pair of
\* (note_id, other_id); the table's CHECK rejects a row with a >= b
InsertOrReplaceEdgeUnordered(cache, note_id, other_id, s) ==
    cache \cup {EdgeRow(<<note_id, other_id>>, s)}

InsertOrReplaceEdge(cache, note_id, other_id, s) ==
    LET p == CanonicalPair(note_id, other_id) IN
    IF CheckOrdered(p[1], p[2])
    THEN {r \in cache : ~SameKey(r, p)} \cup {EdgeRow(p, s)}
    ELSE cache

EdgeAccepted(note_id, other_id) ==
    LET p == CanonicalPair(note_id, other_id) IN CheckOrdered(p[1], p[2])

\* plain INSERT INTO similarity_cache: also fails on an existing primary key
InsertEdge(cache, id_a, id_b, s) ==
    LET p == CanonicalPair(id_a, id_b) IN
    IF CheckOrdered(p[1], p[2]) /\ ~(\E r \in cache : SameKey(r, p))
    THEN cache \cup {EdgeRow(p, s)}
    ELSE cache

InsertAccepted(cache, id_a, id_b) ==
    LET p == CanonicalPair(id_a, id_b) IN
    CheckOrdered(p[1], p[2]) /\ ~(\E r \in cache : SameKey(r, p))

\* SELECT note_id, vector FROM embeddings WHERE note_id != ?1
OtherEmbeddings(emb, note_id) ==
    [o \in DOMAIN emb \ {note_id} |-> blob_to_embedding(emb[o])]

MinOf(S) == CHOOSE m \in S : \A x \in S : m <= x

\* rebuild_cache_for_note, the two reads on a pooled connection
rebuild_read(p) ==
    /\ p \in RebuildThreads /\ pc[p] = "rb_read"
    /\ IF loc[p].id \in DOMAIN embeddings
       THEN /\ loc' = [loc EXCEPT
                         ![p].vec = blob_to_embedding(embeddings[loc[p].id]),
                         ![p].others = OtherEmbeddings(embeddings, loc[p].id)]
            /\ Goto(p, "rb_del")
            /\ UNCHANGED result
       ELSE Finish(p, "Ok")
    /\ UNCHANGED <<DbVars, OtherVars, write_holder>>
    /\ UNCHANGED ServiceVars

\* rebuild_cache_for_note: get_write_conn and the DELETE of the old rows
rebuild_delete(p) ==
    /\ p \in RebuildThreads /\ pc[p] = "rb_del"
    /\ MutexFree(write_holder)
    /\ similarity_cache' = DeleteEdgesOf(similarity_cache, loc[p].id)
    /\ IF DOMAIN loc[p].others = {}
       THEN /\ Finish(p, "Ok")
            /\ UNCHANGED write_holder
       ELSE /\ write_holder' = p
            /\ Goto(p, "rb_ins")
            /\ UNCHANGED <<loc, result>>
    /\ UNCHANGED <<notes, notes_fts, embeddings, vec_embeddings, settings, OtherVars>>
    /\ UNCHANGED ServiceVars

\* rebuild_cache_for_note: one iteration of the insert loop
rebuild_insert(p) ==
    /\ p \in RebuildThreads /\ pc[p] = "rb_ins"
    /\ write_holder = p
    /\ LET other_id == MinOf(DOMAIN loc[p].others)
           similarity == cosine_similarity(loc[p].vec, loc[p].others[other_id])
           rest == Remove(loc[p].others, other_id)
       IN  /\ similarity_cache' =
                 InsertOrReplaceEdge(similarity_cache, loc[p].id, other_id, similarity)
           /\ IF ~EdgeAccepted(loc[p].id, other_id)
              THEN /\ Finish(p, "DatabaseError")
                   /\ write_holder' = NoThread
              ELSE IF DOMAIN rest = {}
              THEN /\ Finish(p, "Ok")
                   /\ write_holder' = NoThread
              ELSE /\ loc' = [loc EXCEPT ![p].others = rest]
                   /\ UNCHANGED <<pc, result, write_holder>>
    /\ UNCHANGED <<notes, notes_fts, embeddings, vec_embeddings, settings, OtherVars>>
    /\ UNCHANGED ServiceVars

\* the pairs (i, j), i < j, of the loop of rebuild_full_cache over `all`
PairsFromNeighbours(all, i, j) ==
    [k \in 1..(Len(all) - 1) |-> [id_a |-> all[k], id_b |-> all[k + 1]]]
RECURSIVE PairsFrom(_, _, _)
PairsFrom(all, i, j) ==
    IF i >= Len(all) THEN <<>>
    ELSE IF j > Len(all) THEN PairsFrom(all, i + 1, i + 2)
    ELSE <<[id_a |-> all[i], id_b |-> all[j]]>> \o PairsFrom(all, i, j + 1)

\* the row orders a SELECT without ORDER BY may return
Orders(S) == {q \in [1..Cardinality(S) -> S] : \A i, j \in 1..Cardinality(S) :
                                                  i # j => q[i] # q[j]}

\* what the last rebuild_full_cache returned: Ok(count) or an error
FullRebuilt(outcome, count) ==
    [called |-> TRUE, op |-> "rebuild_full_cache", outcome |-> outcome, count |-> count]

\* lib.rs rebuild_graph_cache / rebuild_full_cache: SELECT note_id, vector
\* FROM embeddings on a pooled connection
rebuild_full_read(p) ==
    /\ p \in GraphThreads /\ pc[p] = "idle"
    /\ \E all \in Orders(DOMAIN embeddings) :
           loc' = [loc EXCEPT ![p] =
                     [DefaultLoc EXCEPT
                        !.todo = PairsFrom(all, 1, 2),
                        !.others = [o \in DOMAIN embeddings |->
                                       blob_to_embedding(embeddings[o])]]]
    /\ Goto(p, "full_del")
    /\ UNCHANGED <<DbVars, OtherVars, write_holder, result>>
    /\ UNCHANGED ServiceVars

\* rebuild_full_cache: get_write_conn and DELETE FROM similarity_cache
rebuild_full_delete(p) ==
    /\ p \in GraphThreads /\ pc[p] = "full_del"
    /\ MutexFree(write_holder)
    /\ similarity_cache' = {}
    /\ IF loc[p].todo = <<>>
       THEN /\ Finish(p, "Ok")
            /\ graph' = FullRebuilt("Ok", 0)
            /\ UNCHANGED write_holder
       ELSE /\ write_holder' = p
            /\ Goto(p, "full_ins")
            /\ UNCHANGED <<loc, result, graph>>
    /\ UNCHANGED <<notes, notes_fts, embeddings, vec_embeddings, settings, OtherVars>>
    /\ UNCHANGED <<WatchVars, HandlerVars, search, LinkVars, store, snapshot, locks>>

\* rebuild_full_cache: one iteration of the nested insert loop
rebuild_full_insert(p) ==
    /\ p \in GraphThreads /\ pc[p] = "full_ins"
    /\ write_holder = p
    /\ LET pair == Head(loc[p].todo)
           similarity == cosine_similarity(loc[p].others[pair.id_a],
                                           loc[p].others[pair.id_b])
       IN  /\ similarity_cache' =
                 InsertEdge(similarity_cache, pair.id_a, pair.id_b, similarity)
           /\ IF ~InsertAccepted(similarity_cache, pair.id_a, pair.id_b)
              THEN /\ Finish(p, "DatabaseError")
                   /\ graph' = FullRebuilt("DatabaseError", 0)
                   /\ write_holder' = NoThread
              ELSE IF Tail(loc[p].todo) = <<>>
              THEN /\ Finish(p, "Ok")
                   /\ graph' = FullRebuilt("Ok", loc[p].indexed + 1)
                   /\ write_holder' = NoThread
              ELSE /\ loc' = [loc EXCEPT ![p].todo = Tail(@),
                                         ![p].indexed = @ + 1]
                   /\ UNCHANGED <<pc, result, write_holder, graph>>
    /\ UNCHANGED <<notes, notes_fts, embeddings, vec_embeddings, settings, OtherVars>>
    /\ UNCHANGED <<WatchVars, HandlerVars, search, LinkVars, store, snapshot, locks>>

\* a call of the public rebuild_cache_for_note(note_id)
call_rebuild_cache_for_note(p, note_id) ==
    /\ p \in RebuildThreads /\ pc[p] = "idle"
    /\ loc' = [loc EXCEPT ![p] = [DefaultLoc EXCEPT !.id = note_id]]
    /\ Goto(p, "rb_read")
    /\ UNCHANGED <<DbVars, OtherVars, write_holder, result>>
    /\ UNCHANGED ServiceVars

-----------------------------------------------------------------------------
(* EmbeddingService::reindex_all *)

MaxCalls == 1

\* compare_exchange(false, true, SeqCst, SeqCst).is_ok()
CasSucceedsAlways(flag) == TRUE
CasSucceedsInverted(flag) == flag = TRUE
CasSucceeds(flag) == flag = FALSE

\* reindex_all: the guard
reindex_all(p) ==
    /\ p \in ReindexThreads /\ pc[p] = "idle"
    /\ progress[p].calls < MaxCalls
    /\ progress' = [progress EXCEPT ![p] = [calls |-> @.calls + 1, callbacks |-> 0]]
    /\ IF CasSucceeds(reindexing)
       THEN /\ reindexing' = TRUE
            /\ Goto(p, "rx_snap")
            /\ result' = [result EXCEPT ![p] = "none"]
            /\ UNCHANGED loc
       ELSE /\ Finish(p, "AlreadyRunning")
            /\ UNCHANGED reindexing
    /\ UNCHANGED <<DbVars, files, nextId, read_holders, write_holder>>
    /\ UNCHANGED ServiceVars

\* rows of notes in rowid order
RECURSIVE RowsFrom(_, _)
RowsFrom(tbl, ids) ==
    IF ids = {} THEN <<>>
    ELSE LET i == CHOOSE x \in ids : \A y \in ids : tbl[x].rowid <= tbl[y].rowid
         IN  <<[id |-> i, title |-> tbl[i].title, content |-> tbl[i].content]>>
             \o RowsFrom(tbl, ids \ {i})

\* do_reindex_all: SELECT id, title, content FROM notes on a pooled connection
reindex_snapshot(p) ==
    /\ p \in ReindexThreads /\ pc[p] = "rx_snap"
    /\ PoolHasIdle(read_holders)
    /\ loc' = [loc EXCEPT ![p] = [DefaultLoc EXCEPT
                                    !.snap = RowsFrom(notes, DOMAIN notes),
                                    !.total = Cardinality(DOMAIN notes),
                                    !.res = "Ok"]]
    /\ Goto(p, "rx_loop")
    /\ UNCHANGED <<DbVars, OtherVars, write_holder, result>>
    /\ UNCHANGED ServiceVars

\* do_reindex_all: the head of the loop; a note of fewer than 3 tokens is
\* counted and skipped
reindex_loop(p) ==
    /\ p \in ReindexThreads /\ pc[p] = "rx_loop"
    /\ IF loc[p].snap = <<>>
       THEN /\ Goto(p, "rx_store")
            /\ UNCHANGED loc
       ELSE LET note == Head(loc[p].snap) IN
            IF ~NeedsIndex(note.content)
            THEN /\ loc' = [loc EXCEPT ![p].snap = Tail(@), ![p].indexed = @ + 1]
                 /\ UNCHANGED pc
            ELSE /\ loc' = [loc EXCEPT ![p].snap = Tail(@), ![p].id = note.id,
                                       ![p].content = note.content]
                 /\ Goto(p, "idx1")
    /\ UNCHANGED <<DbVars, OtherVars, write_holder, result>>
    /\ UNCHANGED ServiceVars

\* do_reindex_all after index_note returned Ok: the count and the callback
reindex_progress(p) ==
    /\ p \in ReindexThreads /\ pc[p] = "rx_progress"
    /\ loc' = [loc EXCEPT ![p].indexed = @ + 1]
    /\ progress' = [progress EXCEPT ![p].callbacks = @ + 1]
    /\ Goto(p, "rx_loop")
    /\ UNCHANGED <<DbVars, files, nextId, read_holders, reindexing, write_holder,
                   result>>
    /\ UNCHANGED ServiceVars

\* do_reindex_all: get_read_conn()? fails when the pool stays exhausted until
\* r2d2's timeout
reindex_snapshot_fails(p) ==
    /\ p \in ReindexThreads /\ pc[p] = "rx_snap"
    /\ ~PoolHasIdle(read_holders)
    /\ loc' = [loc EXCEPT ![p] = [DefaultLoc EXCEPT !.res = "DatabaseError"]]
    /\ Goto(p, "rx_store")
    /\ UNCHANGED <<DbVars, OtherVars, write_holder, result>>
    /\ UNCHANGED ServiceVars

\* self.reindexing.store(false, Ordering::SeqCst)
reindexing_store_skipped(flag) == flag
reindexing_store(flag) == FALSE

\* reindex_all: reindexing.store(false) and the return of the result
reindex_store(p) ==
    /\ p \in ReindexThreads /\ pc[p] = "rx_store"
    /\ reindexing' = reindexing_store(reindexing)
    /\ pc' = [pc EXCEPT ![p] = "idle"]
    /\ result' = [result EXCEPT ![p] = loc[p].res]
    /\ loc' = [loc EXCEPT ![p] = DefaultLoc]
    /\ UNCHANGED <<DbVars, files, nextId, read_holders, progress, write_holder>>
    /\ UNCHANGED ServiceVars

-----------------------------------------------------------------------------
(* FileWatcherService (services/file_watcher.rs): process_file_change *)

FileTitles == {NoTitle}
FileBodies == { <<"a">>, <<"a", "b", "c">> }
FileTexts == [title : FileTitles, body : FileBodies]

\* the order of PathBuf on the modelled paths
LessEq(x, y) == x = y \/ (x = "x.md" /\ y = "z.md")

file_stem(path) ==
    CASE path = "x.md" -> "x"
      [] path = "z.md" -> "z"
      [] path = " T1 .md" -> " T1 "
      [] OTHER -> "Untitled"

\* extract_front_matter: the trimmed front-matter title when there is one and
\* it is not blank, else the file stem as it is; the body
extract_front_matter(file, path) ==
    [title |-> IF file.title # NoTitle /\ trim(file.title) # ""
               THEN trim(file.title)
               ELSE file_stem(path),
     body |-> file.body]

\* process_file_change(path): the path.exists() test
process_file_change(p, path) ==
    /\ p \in WatcherThreads /\ pc[p] = "idle"
    /\ loc' = [loc EXCEPT ![p] = [DefaultLoc EXCEPT !.path = path]]
    /\ Goto(p, IF files[path].some THEN "imp_read" ELSE "wdel_lookup")
    /\ UNCHANGED <<DbVars, OtherVars, write_holder, result>>
    /\ UNCHANGED ServiceVars

\* import_md_file: read_to_string, get_note_by_file_path, extract_front_matter
\* and the comparison with the stored note
import_read(p) ==
    /\ p \in ImportThreads /\ pc[p] = "imp_read"
    /\ IF ~files[loc[p].path].some
       THEN Finish(p, "IoError")
       ELSE LET fm == extract_front_matter(files[loc[p].path].v, loc[p].path)
                existing == NoteIdByPath(notes, loc[p].path)
            IN  IF existing # 0 /\ notes[existing].content = fm.body
                               /\ notes[existing].title = fm.title
                THEN Finish(p, "Skipped")
                ELSE /\ loc' = [loc EXCEPT ![p].id = existing,
                                           ![p].title = fm.title,
                                           ![p].content = fm.body]
                     /\ Goto(p, IF existing # 0 THEN "imp_upd" ELSE "imp_create")
                     /\ UNCHANGED result
    /\ UNCHANGED <<DbVars, OtherVars, write_holder>>
    /\ UNCHANGED ServiceVars

\* import_md_file: note_service.update_note(&note.id, Some(title), Some(body))
import_update(p) ==
    /\ p \in ImportThreads /\ pc[p] = "imp_upd"
    /\ update_get(p, loc[p].id, Some(loc[p].title), Some(loc[p].content))

\* import_md_file: note_service.create_note(title, body, Some(path_str))
import_create(p) ==
    /\ p \in ImportThreads /\ pc[p] = "imp_create"
    /\ create_note(p, loc[p].title, loc[p].content, loc[p].path)
    /\ IF create_result(notes, loc[p].title, loc[p].content, loc[p].path) = "Ok"
       THEN /\ Goto(p, "w_lookup")
            /\ UNCHANGED <<loc, result>>
       ELSE Finish(p, create_result(notes, loc[p].title, loc[p].content, loc[p].path))
    /\ UNCHANGED <<embeddings, vec_embeddings, similarity_cache, settings, files,
                   write_holder, read_holders, reindexing, progress>>
    /\ UNCHANGED ServiceVars

\* process_file_change after Ok(true): get_note_by_file_path, then the
\* indexing of a note of at least 3 tokens
watcher_lookup(p) ==
    /\ p \in ImportThreads /\ pc[p] = "w_lookup"
    /\ LET id == NoteIdByPath(notes, loc[p].path) IN
       IF id # 0 /\ NeedsIndex(notes[id].content)
       THEN /\ loc' = [loc EXCEPT ![p].id = id, ![p].content = notes[id].content]
            /\ Goto(p, "idx1")
            /\ UNCHANGED result
       ELSE Finish(p, "Ok")
    /\ UNCHANGED <<DbVars, OtherVars, write_holder>>
    /\ UNCHANGED ServiceVars

\* process_file_change, file gone: get_note_by_file_path
watcher_delete_lookup(p) ==
    /\ p \in ImportThreads /\ pc[p] = "wdel_lookup"
    /\ LET id == NoteIdByPath(notes, loc[p].path) IN
       IF id # 0
       THEN /\ loc' = [loc EXCEPT ![p].id = id]
            /\ Goto(p, "rm1")
            /\ UNCHANGED result
       ELSE Finish(p, "Ok")
    /\ UNCHANGED <<DbVars, OtherVars, write_holder>>
    /\ UNCHANGED ServiceVars

\* process_file_change, file gone: DELETE FROM notes on the write connection
watcher_delete_row(p) ==
    /\ p \in ImportThreads /\ pc[p] = "w_delrow"
    /\ MutexFree(write_holder)
    /\ DeleteNotesRow(loc[p].id)
    /\ Finish(p, "Deleted")
    /\ UNCHANGED <<vec_embeddings, similarity_cache, settings, OtherVars, write_holder>>
    /\ UNCHANGED ServiceVars

\* the user's editor or shell writes or removes a file of the watched directory
file_write(path, file) ==
    /\ files[path] # Some(file)
    /\ files' = [files EXCEPT ![path] = Some(file)]
    /\ UNCHANGED <<DbVars, nextId, write_holder, read_holders, reindexing, pc, loc,
                   result, progress>>
    /\ UNCHANGED ServiceVars

file_remove(path) ==
    /\ files[path].some
    /\ files' = [files EXCEPT ![path] = None]
    /\ UNCHANGED <<DbVars, nextId, write_holder, read_holders, reindexing, pc, loc,
                   result, progress>>
    /\ UNCHANGED ServiceVars

-----------------------------------------------------------------------------
(* FileWatcherService (services/file_watcher.rs): start_watching,
   stop_watching and the initial scan *)

Directories == {"/notes", "/link", "/missing", "/notes/x.md"}

\* Path::exists, Path::is_dir and Path::canonicalize on the modelled disk:
\* /link is a symbolic link to the directory /notes, /empty is a directory
\* without files
dir_exists(d) == d # "/missing"
is_dir(d) == d \in {"/notes", "/link", "/empty"}
canonicalize(d) == IF d = "/link" THEN "/notes" ELSE d

\* the OS watcher one call creates, with the handler thread it spawns
NewWatcher(p, dir) == [by |-> p, watch_dir |-> dir]

\* dropping a WatcherState drops its RecommendedWatcher
DropStored(ws, stored) == IF stored.some THEN ws \ {stored.v} ELSE ws

\* start_watching(directory): the validation of the directory
start_watching(p, directory) ==
    /\ p \in StartThreads /\ pc[p] = "idle"
    /\ IF ~dir_exists(directory) THEN Return(p, "DirectoryNotFound")
       ELSE IF ~is_dir(directory) THEN Return(p, "NotADirectory")
       ELSE /\ loc' = [loc EXCEPT ![p] =
                         [DefaultLoc EXCEPT !.path = canonicalize(directory)]]
            /\ Goto(p, "sw_stop")
            /\ result' = [result EXCEPT ![p] = "none"]
    /\ UNCHANGED <<DbVars, OtherVars, write_holder, ServiceVars>>

\* stop_watching: lock, state.take(), the taken WatcherState is dropped
TakeWatcher ==
    /\ live' = DropStored(live, watcher)
    /\ watcher' = None

\* start_watching: self.stop_watching()?
start_stop(p) ==
    /\ p \in StartThreads /\ pc[p] = "sw_stop"
    /\ TakeWatcher
    /\ Goto(p, "sw_create")
    /\ UNCHANGED <<DbVars, OtherVars, write_holder, loc, result, HandlerVars, search, LinkVars, ExtraVars>>

\* start_watching: recommended_watcher(tx), watcher.watch(..) and the spawn
\* of the handler thread
start_create(p) ==
    /\ p \in StartThreads /\ pc[p] = "sw_create"
    /\ live' = live \cup {NewWatcher(p, loc[p].path)}
    /\ Goto(p, "sw_store")
    /\ UNCHANGED <<DbVars, OtherVars, write_holder, loc, result, watcher,
                   HandlerVars, search, LinkVars, ExtraVars>>

\* start_watching: lock, *state = Some(WatcherState {..}); the assignment
\* drops the value stored before
start_store(p) ==
    /\ p \in StartThreads /\ pc[p] = "sw_store"
    /\ live' = DropStored(live, watcher)
    /\ watcher' = Some(NewWatcher(p, loc[p].path))
    /\ Goto(p, "scan_walk")
    /\ UNCHANGED <<DbVars, OtherVars, write_holder, loc, result, HandlerVars, search, LinkVars, ExtraVars>>

\* the command stop_watching
stop_watching(p) ==
    /\ p \in StartThreads /\ pc[p] = "idle"
    /\ TakeWatcher
    /\ result' = [result EXCEPT ![p] = "Ok"]
    /\ UNCHANGED <<DbVars, OtherVars, write_holder, pc, loc, HandlerVars, search, LinkVars, ExtraVars>>

\* the sequence of the elements of S in increasing order (files.sort())
RECURSIVE Sorted(_)
Sorted(S) ==
    IF S = {} THEN <<>>
    ELSE LET m == CHOOSE x \in S : \A y \in S : LessEq(x, y)
         IN  <<m>> \o Sorted(S \ {m})

\* walk_md_files: the markdown files under the directory, sorted; the files
\* of the model are those of /notes
walk_md_files(dir) ==
    IF dir = "/notes" THEN Sorted({path \in DOMAIN files : files[path].some})
    ELSE <<>>

\* scan_directory_internal: walk_md_files(dir)
scan_walk(p) ==
    /\ p \in StartThreads /\ pc[p] = "scan_walk"
    /\ loc' = [loc EXCEPT ![p] = [DefaultLoc EXCEPT !.todo = walk_md_files(loc[p].path)]]
    /\ Goto(p, "scan_loop")
    /\ UNCHANGED <<DbVars, OtherVars, write_holder, result, ServiceVars>>

\* scan_directory_internal: the loop over the entries, import_md_file on
\* each; after the last one start_watching returns Ok
scan_loop(p) ==
    /\ p \in StartThreads /\ pc[p] = "scan_loop"
    /\ IF loc[p].todo = <<>>
       THEN Return(p, "Ok")
       ELSE /\ loc' = [loc EXCEPT ![p] = [DefaultLoc EXCEPT
                                            !.path = Head(loc[p].todo),
                                            !.todo = Tail(loc[p].todo)]]
            /\ Goto(p, "imp_read")
            /\ UNCHANGED result
    /\ UNCHANGED <<DbVars, OtherVars, write_holder, ServiceVars>>

-----------------------------------------------------------------------------
(* FileWatcherService: the handler thread spawned by start_watching.  Time
   is counted in ms since the start of the current recv_timeout (waited)
   and since last_event was set (last_event); both stop counting at the
   value they are compared with. *)

MaxQueue == 2
recv_timeout_ms == 500
debounce_elapsed_ms == 500

\* a message of the channel: Ok(event) with one path, or Err(notify::Error)
Event(kind, path) == [ok |-> TRUE, kind |-> kind, paths |-> <<path>>]
WatchError == [ok |-> FALSE]

\* should_process_event: Create, Modify and Remove events
should_process_event(event) == event.kind \in {"Create", "Modify", "Remove"}

\* is_markdown_file: the extension is md or markdown
is_markdown_file(path) == path \in AllPaths \cup {"/etc/out.md"}

\* is_safe_path: the path canonicalizes into the watched directory
is_safe_path(path, watch_dir) == path # "/etc/out.md"

\* the paths of an event that the handler inserts into pending_paths
AcceptedPaths(event) ==
    {event.paths[i] : i \in {j \in DOMAIN event.paths :
         is_markdown_file(event.paths[j]) /\ is_safe_path(event.paths[j], "/notes")}}

\* the watcher whose sender feeds the channel of the handler thread h
Sender == NewWatcher("k1", "/notes")

\* the OS watcher sends a message while it is alive
Send(msg) ==
    /\ Sender \in live
    /\ Len(rx) < MaxQueue
    /\ rx' = Append(rx, msg)

\* a file of the watched directory is written: a Modify event
fs_write(path, file) ==
    /\ files[path] # Some(file)
    /\ files' = [files EXCEPT ![path] = Some(file)]
    /\ Send(Event("Modify", path))
    /\ UNCHANGED <<DbVars, nextId, write_holder, read_holders, reindexing, pc, loc,
                   result, progress, WatchVars, pending_paths, last_event, waited,
                   search, LinkVars, ExtraVars>>

\* a file of the watched directory is removed: a Remove event
fs_remove(path) ==
    /\ files[path].some
    /\ files' = [files EXCEPT ![path] = None]
    /\ Send(Event("Remove", path))
    /\ UNCHANGED <<DbVars, nextId, write_holder, read_holders, reindexing, pc, loc,
                   result, progress, WatchVars, pending_paths, last_event, waited,
                   search, LinkVars, ExtraVars>>

\* messages the handler does not accept: an Access event on a markdown file,
\* a Modify event on another file type, a watch error
OtherMessages == {Event("Access", "x.md"), Event("Modify", "notes.txt"), WatchError}

fs_other(msg) ==
    /\ Send(msg)
    /\ UNCHANGED <<DbVars, OtherVars, write_holder, pc, loc, result, WatchVars,
                   pending_paths, last_event, waited, search, LinkVars, ExtraVars>>

Min(a, b) == IF a < b THEN a ELSE b

Delays == {250, 500}

\* recv_timeout returns Timeout after recv_timeout_ms without a message
TimedOut(ms) == ms >= recv_timeout_ms

\* d ms pass while the handler waits in recv_timeout on an empty channel
tick(d) ==
    /\ pc["h"] = "idle"
    /\ rx = <<>> /\ ~TimedOut(waited)
    /\ waited' = Min(recv_timeout_ms, waited + d)
    /\ last_event' = Min(debounce_elapsed_ms, last_event + d)
    /\ UNCHANGED <<DbVars, OtherVars, write_holder, pc, loc, result, WatchVars, rx,
                   pending_paths, search, LinkVars, ExtraVars>>

\* recv_timeout returns Ok(Ok(event)) or Ok(Err(e))
handler_recv(p) ==
    /\ p \in HandlerThreads /\ pc[p] = "idle"
    /\ rx # <<>>
    /\ rx' = Tail(rx)
    /\ waited' = 0
    /\ IF Head(rx).ok /\ should_process_event(Head(rx))
       THEN /\ pending_paths' = pending_paths \cup AcceptedPaths(Head(rx))
            /\ last_event' = 0
       ELSE UNCHANGED <<pending_paths, last_event>>
    /\ UNCHANGED <<DbVars, OtherVars, write_holder, pc, loc, result, WatchVars, search, LinkVars, ExtraVars>>

\* pending_paths after `for path in pending_paths.drain()`
AfterDrainKept(S) == S
AfterDrain(S) == {}

\* last_event.elapsed() >= Duration::from_millis(500)
Elapsed(ms) == ms >= debounce_elapsed_ms

\* recv_timeout returns Err(Timeout): the pending paths are drained when
\* there are some and last_event is old enough
handler_timeout(p) ==
    /\ p \in HandlerThreads /\ pc[p] = "idle"
    /\ rx = <<>> /\ TimedOut(waited)
    /\ Sender \in live
    /\ waited' = 0
    /\ IF pending_paths # {} /\ Elapsed(last_event)
       THEN /\ \E order \in Orders(pending_paths) :
                  loc' = [loc EXCEPT ![p] = [DefaultLoc EXCEPT !.todo = order]]
            /\ pending_paths' = AfterDrain(pending_paths)
            /\ Goto(p, "drain")
       ELSE UNCHANGED <<pending_paths, pc, loc>>
    /\ UNCHANGED <<DbVars, OtherVars, write_holder, result, WatchVars, rx, last_event,
                   search, LinkVars, ExtraVars>>

\* the drain loop: process_file_change on the next path (its path.exists()
\* test), or back to recv_timeout after the last one
handler_drain(p) ==
    /\ p \in HandlerThreads /\ pc[p] = "drain"
    /\ IF loc[p].todo = <<>>
       THEN /\ Goto(p, "idle")
            /\ loc' = [loc EXCEPT ![p] = DefaultLoc]
       ELSE LET path == Head(loc[p].todo) IN
            /\ loc' = [loc EXCEPT ![p] = [DefaultLoc EXCEPT
                                            !.path = path,
                                            !.todo = Tail(loc[p].todo)]]
            /\ Goto(p, IF files[path].some THEN "imp_read" ELSE "wdel_lookup")
    /\ UNCHANGED <<DbVars, OtherVars, write_holder, result, ServiceVars>>

\* recv_timeout returns Err(Disconnected) once the watcher, and with it the
\* sender, is dropped and the channel is empty: the thread ends
AfterDisconnectedContinue == "idle"
AfterDisconnected == "ended"

handler_disconnected(p) ==
    /\ p \in HandlerThreads /\ pc[p] = "idle"
    /\ rx = <<>> /\ Sender \notin live
    /\ Goto(p, AfterDisconnected)
    /\ UNCHANGED <<DbVars, OtherVars, write_holder, loc, result, ServiceVars>>

-----------------------------------------------------------------------------
(* Initial state: a migrated, empty database *)

DefaultSettings ==
    [k \in {"similarity_threshold", "debounce_ms", "theme"} |->
        IF k = "similarity_threshold" THEN "0.65"
        ELSE IF k = "debounce_ms" THEN "300" ELSE "dark"]

ReindexingInit == FALSE

InitThreadsOn(file) ==
    /\ write_holder = NoThread
    /\ read_holders = {}
    /\ reindexing = ReindexingInit
    /\ pc = [t \in Threads |-> "idle"]
    /\ loc = [t \in Threads |-> DefaultLoc]
    /\ result = [t \in Threads |-> "none"]
    /\ progress = [t \in ReindexThreads |-> [calls |-> 0, callbacks |-> 0]]
    /\ rx = <<>>
    /\ pending_paths = {}
    /\ last_event = 0
    /\ waited = 0
    /\ search = NoSearch
    /\ link_cache = <<>>
    /\ latent = NoLinks
    /\ graph = NoCall
    /\ store = file
    /\ snapshot = NoCall
    /\ locks = [t \in {"e1", "b1", "r1", "h", "k1", "k2"} |-> [held |-> {}, todo |-> <<>>]]

InitThreads == InitThreadsOn(Migrated)

\* FileWatcherService::new: no watcher
InitWatcher ==
    /\ watcher = None
    /\ live = {}

Init ==
    /\ notes = <<>>
    /\ notes_fts = EmptyBag
    /\ embeddings = <<>>
    /\ vec_embeddings = <<>>
    /\ similarity_cache = {}
    /\ settings = DefaultSettings
    /\ files = [p \in AllPaths |-> None]
    /\ nextId = 1
    /\ InitThreads
    /\ InitWatcher

(* Editor commands and the background tasks they spawn *)
Next ==
    \/ \E p \in EditorThreads, t \in Titles, c \in Contents :
           cmd_create_note(p, t, c, NoFile)
    \/ \E p \in EditorThreads, id \in 1..MaxNotes,
          t \in {None} \cup {Some(x) : x \in Titles},
          c \in {None} \cup {Some(x) : x \in Contents} :
           cmd_update_note(p, id, t, c)
    \/ \E p \in EditorThreads : update_write(p)
    \/ \E p \in EditorThreads, id \in 1..MaxNotes : cmd_delete_note(p, id)
    \/ \E p \in EditorThreads : remove_embedding_1(p)
    \/ \E p \in EditorThreads : remove_embedding_2(p)
    \/ \E p \in EditorThreads : delete_get(p)
    \/ \E p \in EditorThreads : delete_row(p)
    \/ \E p \in TaskThreads : index_upsert(p)
    \/ \E p \in TaskThreads : index_vec_delete(p)
    \/ \E p \in TaskThreads : index_vec_insert(p)
    \/ \E p \in TaskThreads : rebuild_read(p)
    \/ \E p \in TaskThreads : rebuild_delete(p)
    \/ \E p \in TaskThreads : rebuild_insert(p)

Spec == Init /\ [][Next]_vars

-----------------------------------------------------------------------------
(* The notes table and its full-text shadow: editor commands and the watcher
   on notes of fewer than 3 tokens, which are never indexed *)

ShortContents == { <<"a">>, <<"a", "b">> }
ShortFileTexts == [title : {NoTitle, "T1"}, body : ShortContents]

NextNotes ==
    \/ \E p \in EditorThreads, t \in Titles, c \in ShortContents,
          f \in {NoFile} \cup Paths :
           cmd_create_note(p, t, c, f)
    \/ \E p \in EditorThreads, id \in 1..MaxNotes,
          t \in {None} \cup {Some(x) : x \in Titles},
          c \in {None} \cup {Some(x) : x \in ShortContents} :
           cmd_update_note(p, id, t, c)
    \/ \E p \in EditorThreads \cup WatcherThreads : update_write(p)
    \/ \E p \in EditorThreads, id \in 1..MaxNotes : cmd_delete_note(p, id)
    \/ \E p \in RemoveThreads : remove_embedding_1(p)
    \/ \E p \in RemoveThreads : remove_embedding_2(p)
    \/ \E p \in EditorThreads : delete_get(p)
    \/ \E p \in EditorThreads : delete_row(p)
    \/ \E p \in WatcherThreads, path \in Paths : process_file_change(p, path)
    \/ \E p \in WatcherThreads : import_read(p)
    \/ \E p \in WatcherThreads : import_update(p)
    \/ \E p \in WatcherThreads : import_create(p)
    \/ \E p \in WatcherThreads : watcher_lookup(p)
    \/ \E p \in WatcherThreads : watcher_delete_lookup(p)
    \/ \E p \in WatcherThreads : watcher_delete_row(p)
    \/ \E path \in Paths, file \in ShortFileTexts : file_write(path, file)
    \/ \E path \in Paths : file_remove(path)

SpecNotes == Init /\ [][NextNotes]_vars

-----------------------------------------------------------------------------
(* The similarity cache: rebuilds and deletions on a populated database *)

InitNotes == 2

LongContents == {c \in Contents : NeedsIndex(c)}

\* a database of InitNotes notes created in id order, the notes of `indexed`
\* carrying the embedding of their content
Populated(contentOf, indexed) ==
    /\ notes = [i \in 1..InitNotes |->
                  [rowid |-> i, title |-> "T1", content |-> contentOf[i],
                   file_path |-> NoFile,
                   word_count |-> split_whitespace_count(contentOf[i])]]
    /\ notes_fts = SetToBag({FtsRow(notes[i]) : i \in 1..InitNotes})
    /\ embeddings = [i \in indexed |-> embedding_to_blob(embed_text(contentOf[i]))]
    /\ vec_embeddings = embeddings
    /\ settings = DefaultSettings
    /\ files = [p \in AllPaths |-> None]
    /\ nextId = InitNotes + 1
    /\ InitThreads
    /\ InitWatcher

InitGraph ==
    /\ \E contentOf \in [1..InitNotes -> LongContents] :
           Populated(contentOf, 1..InitNotes)
    /\ similarity_cache = {}

NextGraph ==
    \/ \E p \in SpawnSlots, id \in 1..InitNotes : call_rebuild_cache_for_note(p, id)
    \/ \E p \in TaskThreads : rebuild_read(p)
    \/ \E p \in TaskThreads : rebuild_delete(p)
    \/ \E p \in TaskThreads : rebuild_insert(p)
    \/ \E p \in GraphThreads : rebuild_full_read(p)
    \/ \E p \in GraphThreads : rebuild_full_delete(p)
    \/ \E p \in GraphThreads : rebuild_full_insert(p)
    \/ \E p \in EditorThreads, id \in 1..InitNotes : cmd_delete_note(p, id)
    \/ \E p \in EditorThreads : remove_embedding_1(p)
    \/ \E p \in EditorThreads : remove_embedding_2(p)
    \/ \E p \in EditorThreads : delete_get(p)
    \/ \E p \in EditorThreads : delete_row(p)

SpecGraph == InitGraph /\ [][NextGraph]_vars

-----------------------------------------------------------------------------
(* Reindexing a populated database while notes are deleted *)

ReindexContents == { <<"a">>, <<"a", "b", "c">> }

InitReindex ==
    /\ \E contentOf \in [1..InitNotes -> ReindexContents] : Populated(contentOf, {})
    /\ similarity_cache = {}

NextReindex ==
    \/ \E p \in ReindexThreads : reindex_all(p)
    \/ \E p \in ReindexThreads : reindex_snapshot(p)
    \/ \E p \in ReindexThreads : reindex_loop(p)
    \/ \E p \in ReindexThreads : index_upsert(p)
    \/ \E p \in ReindexThreads : index_vec_delete(p)
    \/ \E p \in ReindexThreads : index_vec_insert(p)
    \/ \E p \in ReindexThreads : reindex_progress(p)
    \/ \E p \in ReindexThreads : reindex_store(p)
    \/ \E p \in EditorThreads, id \in 1..InitNotes : cmd_delete_note(p, id)
    \/ \E p \in EditorThreads : remove_embedding_1(p)
    \/ \E p \in EditorThreads : remove_embedding_2(p)
    \/ \E p \in EditorThreads : delete_get(p)
    \/ \E p \in EditorThreads : delete_row(p)

SpecReindex == InitReindex /\ [][NextReindex]_vars

-----------------------------------------------------------------------------
(* The connection discipline: threads taking and dropping connections *)

\* get_read_conn: read_pool.get()
get_read_conn(p) ==
    /\ p \in StoreThreads /\ pc[p] = "idle"
    /\ PoolHasIdle(read_holders)
    /\ read_holders' = read_holders \cup {p}
    /\ Goto(p, "reading")
    /\ result' = [result EXCEPT ![p] = "Ok"]
    /\ UNCHANGED <<DbVars, files, nextId, reindexing, progress, write_holder, loc>>
    /\ UNCHANGED ServiceVars

\* get_read_conn when the pool stays exhausted until r2d2's timeout
get_read_conn_timeout(p) ==
    /\ p \in StoreThreads /\ pc[p] = "idle"
    /\ ~PoolHasIdle(read_holders)
    /\ Finish(p, "DatabaseError")
    /\ UNCHANGED <<DbVars, OtherVars, write_holder>>
    /\ UNCHANGED ServiceVars

\* the PooledConnection is dropped
drop_read_conn(p) ==
    /\ p \in StoreThreads /\ pc[p] = "reading"
    /\ read_holders' = read_holders \ {p}
    /\ Goto(p, "idle")
    /\ UNCHANGED <<DbVars, files, nextId, reindexing, progress, write_holder, loc,
                   result>>
    /\ UNCHANGED ServiceVars

\* get_write_conn: write_conn.lock()
get_write_conn(p) ==
    /\ p \in StoreThreads /\ pc[p] = "idle"
    /\ MutexFree(write_holder)
    /\ write_holder' = p
    /\ Goto(p, "writing")
    /\ result' = [result EXCEPT ![p] = "Ok"]
    /\ UNCHANGED <<DbVars, OtherVars, loc>>
    /\ UNCHANGED ServiceVars

\* the MutexGuard is dropped
drop_write_conn(p) ==
    /\ p \in StoreThreads /\ pc[p] = "writing"
    /\ write_holder' = NoThread
    /\ Goto(p, "idle")
    /\ UNCHANGED <<DbVars, OtherVars, loc, result>>
    /\ UNCHANGED ServiceVars

NextStore ==
    \/ \E p \in StoreThreads : get_read_conn(p)
    \/ \E p \in StoreThreads : get_read_conn_timeout(p)
    \/ \E p \in StoreThreads : drop_read_conn(p)
    \/ \E p \in StoreThreads : get_write_conn(p)
    \/ \E p \in StoreThreads : drop_write_conn(p)

SpecStore == Init /\ [][NextStore]_vars

-----------------------------------------------------------------------------
(* SettingsService (services/settings.rs) *)

\* similarity thresholds in hundredths, debounce in milliseconds
ThresholdInputs == {-10, 0, 30, 50, 80, 100, 150}
DebounceInputs == {50, 100, 300, 500, 1000, 2000, 3000}
ThemeInputs == {"dark", "light", "blue"}

\* f64::to_string of h / 100
F64ToString(h) ==
    CASE h = -10 -> "-0.1" [] h = 0 -> "0" [] h = 30 -> "0.3" [] h = 50 -> "0.5"
      [] h = 80 -> "0.8" [] h = 100 -> "1" [] h = 150 -> "1.5"

SettingsPatches ==
    [similarity_threshold : {None} \cup {Some(x) : x \in ThresholdInputs},
     debounce_ms : {None} \cup {Some(x) : x \in DebounceInputs},
     theme : {None} \cup {Some(x) : x \in ThemeInputs}]

ThresholdOk(h) == 0 <= h /\ h <= 100
DebounceOk(d) == 100 <= d /\ d <= 2000
ThemeOk(t) == t = "dark" \/ t = "light"

\* the three blocks of update_settings, in the order of the code: each checks
\* its field and, when the check passes, executes its INSERT OR REPLACE
AfterThreshold(tbl, patch) ==
    IF ~patch.similarity_threshold.some THEN [tbl |-> tbl, res |-> "Ok"]
    ELSE IF ~ThresholdOk(patch.similarity_threshold.v)
    THEN [tbl |-> tbl, res |-> "InvalidValue"]
    ELSE [tbl |-> [tbl EXCEPT !["similarity_threshold"] =
                      F64ToString(patch.similarity_threshold.v)],
          res |-> "Ok"]

AfterDebounce(st, patch) ==
    IF st.res # "Ok" \/ ~patch.debounce_ms.some THEN st
    ELSE IF ~DebounceOk(patch.debounce_ms.v)
    THEN [tbl |-> st.tbl, res |-> "InvalidValue"]
    ELSE [tbl |-> [st.tbl EXCEPT !["debounce_ms"] = ToString(patch.debounce_ms.v)],
          res |-> "Ok"]

AfterTheme(st, patch) ==
    IF st.res # "Ok" \/ ~patch.theme.some THEN st
    ELSE IF ~ThemeOk(patch.theme.v)
    THEN [tbl |-> st.tbl, res |-> "InvalidValue"]
    ELSE [tbl |-> [st.tbl EXCEPT !["theme"] = patch.theme.v], res |-> "Ok"]

\* update_settings(patch): the whole call, under the write guard it takes first
update_settings(p, patch) ==
    /\ p \in SettingsThreads /\ pc[p] = "idle"
    /\ MutexFree(write_holder)
    /\ LET st == AfterTheme(AfterDebounce(AfterThreshold(settings, patch), patch),
                            patch)
       IN  /\ settings' = st.tbl
           /\ result' = [result EXCEPT ![p] = st.res]
    /\ UNCHANGED <<notes, notes_fts, embeddings, vec_embeddings, similarity_cache,
                   OtherVars, write_holder, pc, loc>>
    /\ UNCHANGED ServiceVars

\* str::parse::<f64> and str::parse::<u32> of a stored value, in hundredths
\* and in ms; get_settings falls back to 0.65 and 300
ParseThreshold(str) ==
    IF \E h \in ThresholdInputs : F64ToString(h) = str
    THEN CHOOSE h \in ThresholdInputs : F64ToString(h) = str
    ELSE 65
ParseDebounce(str) ==
    IF \E d \in DebounceInputs : ToString(d) = str
    THEN CHOOSE d \in DebounceInputs : ToString(d) = str
    ELSE 300

\* get_settings: get_value(key, default)
get_value(tbl, key, default) == IF key \in DOMAIN tbl THEN tbl[key] ELSE default

\* get_settings on the settings table tbl
get_settings(tbl) ==
    [watch_directory |->
         LET v == get_value(tbl, "watch_directory", "")
         IN  IF v = "" THEN None ELSE Some(v),
     similarity_threshold |-> ParseThreshold(get_value(tbl, "similarity_threshold", "0.65")),
     debounce_ms |-> ParseDebounce(get_value(tbl, "debounce_ms", "300")),
     theme |-> get_value(tbl, "theme", "dark")]

NextSettings ==
    \E p \in SettingsThreads, patch \in SettingsPatches : update_settings(p, patch)

SpecSettings == Init /\ [][NextSettings]_vars

-----------------------------------------------------------------------------
(* Properties *)

InIndexNote(p) == pc[p] \in {"idx1", "idx2", "idx3"}
InRemoveEmbedding(p) == pc[p] \in {"rm1", "rm2"}

\* C1: whenever no index_note or remove_embedding call is in progress, the
\* embeddings table and the dense index hold the same note ids with the same
\* vector bytes.
C1_EmbeddingsMatchDenseIndex ==
    (\A p \in Threads : ~InIndexNote(p) /\ ~InRemoveEmbedding(p))
        => /\ DOMAIN embeddings = DOMAIN vec_embeddings
           /\ \A i \in DOMAIN embeddings : embeddings[i] = vec_embeddings[i]

\* C2: index_note is atomic for readers: while a thread is between the
\* statements of index_note, the committed state a pooled reader sees has the
\* note id in both tables or in neither.
C2_IndexNoteAtomic ==
    \A p \in IndexThreads :
        pc[p] \in {"idx2", "idx3"}
            => (loc[p].id \in DOMAIN embeddings <=> loc[p].id \in DOMAIN vec_embeddings)

ReferencedIds ==
    DOMAIN embeddings \cup DOMAIN vec_embeddings
    \cup {r.note_id_a : r \in similarity_cache}
    \cup {r.note_id_b : r \in similarity_cache}

\* C3: once a deletion has returned, every note id referenced by embeddings,
\* the dense index or similarity_cache (either side) exists in notes.
C3_DeleteLeavesNoRows ==
    (\A p \in EditorThreads \cup WatcherThreads : pc[p] = "idle")
        => ReferencedIds \subseteq DOMAIN notes

\* C4: every similarity_cache row has note_id_a < note_id_b (so no self-pair),
\* and no unordered pair of notes appears in more than one row.
C4_CanonicalPairs ==
    /\ \A r \in similarity_cache : r.note_id_a < r.note_id_b
    /\ \A r1, r2 \in similarity_cache :
           {r1.note_id_a, r1.note_id_b} = {r2.note_id_a, r2.note_id_b} => r1 = r2

\* a row was inserted by an earlier rebuild, and a rebuild_cache_for_note
\* and a rebuild_full_cache have both taken their snapshot and wait to write
C4_Witness ==
    /\ similarity_cache # {}
    /\ pc["b1"] = "rb_del"
    /\ pc["g"] = "full_del"

\* C5: every notes row has exactly one full-text shadow row with its rowid,
\* title and content, and the shadow has no other row.
C5_FtsMirrorsNotes ==
    /\ \A i \in DOMAIN notes :
           /\ CopiesIn(FtsRow(notes[i]), notes_fts) = 1
           /\ \A r \in BagToSet(notes_fts) :
                  r.rowid = notes[i].rowid => r = FtsRow(notes[i])
    /\ \A r \in BagToSet(notes_fts) : \E i \in DOMAIN notes : r = FtsRow(notes[i])
    /\ \A i, j \in DOMAIN notes : notes[i].rowid = notes[j].rowid => i = j

\* a note lives in a rowid freed by a deletion, and the watcher has just
\* updated the note of its file
C5_Witness ==
    /\ \E i \in DOMAIN notes : notes[i].rowid # i
    /\ pc["w"] = "w_lookup"
    /\ loc["w"].id \in DOMAIN notes

Running(q) ==
    pc[q] \in {"rx_snap", "rx_loop", "idx1", "idx2", "idx3", "rx_progress", "rx_store"}

C6_AtMostOneRunning == Cardinality({q \in ReindexThreads : Running(q)}) <= 1

C6_RejectedWhileRunning ==
    \A p \in ReindexThreads :
        (/\ pc[p] = "idle"
         /\ \E q \in ReindexThreads \ {p} : Running(q)
         /\ progress'[p].calls # progress[p].calls)
        => /\ result'[p] = "AlreadyRunning"
           /\ pc'[p] = "idle"
           /\ progress'[p].callbacks = 0
           /\ embeddings' = embeddings
           /\ vec_embeddings' = vec_embeddings

\* C6: at most one reindex job runs at any time, and a reindex_all call made
\* while another call is between its compare-and-set and its return fails
\* with AlreadyRunning, indexes nothing and invokes no progress callback.
C6_SingleReindex == []C6_AtMostOneRunning /\ [][C6_RejectedWhileRunning]_vars

\* one call is running and has indexed a note, the other was rejected
C6_Witness ==
    /\ Running("r1") /\ loc["r1"].indexed > 0
    /\ pc["r2"] = "idle" /\ result["r2"] = "AlreadyRunning"

BothReturned ==
    \A p \in ReindexThreads : pc[p] = "idle" /\ progress[p].calls = 1

\* C7 as stated: of two reindex_all calls from two threads, exactly one
\* returns successfully and the other fails with AlreadyRunning.
C7_ExactlyOneSucceeds ==
    BothReturned =>
        \E p \in ReindexThreads :
            /\ result[p] = "Ok"
            /\ \A q \in ReindexThreads \ {p} : result[q] = "AlreadyRunning"

\* C7 as amended: of two reindex_all calls from two threads, at most one
\* fails with AlreadyRunning.
C7_AtMostOneRejected ==
    BothReturned =>
        Cardinality({p \in ReindexThreads : result[p] = "AlreadyRunning"}) <= 1

C7_Witness ==
    /\ BothReturned
    /\ result["r1"] = "Ok"
    /\ result["r2"] = "AlreadyRunning"

\* C8: reindex_all processes every item of its snapshot: when the job
\* returns, no item of the snapshot is left unprocessed.
C8_ReindexRunsToCompletion ==
    \A p \in ReindexThreads : pc[p] = "rx_store" => loc[p].snap = <<>>

\* C9: at most one thread holds the write handle and at most 4 read handles
\* are checked out.
C9_OneWriterFourReaders ==
    /\ Cardinality({p \in StoreThreads : pc[p] = "writing"}) <= 1
    /\ Cardinality({p \in StoreThreads : pc[p] = "reading"}) <= 4

\* four readers and a writer at once, and a sixth thread was refused
C9_Witness ==
    /\ Cardinality({p \in StoreThreads : pc[p] = "reading"}) = 4
    /\ \E p \in StoreThreads : pc[p] = "writing"
    /\ \E p \in StoreThreads : pc[p] = "idle" /\ result[p] = "DatabaseError"

UpdateRejected ==
    \E p \in SettingsThreads : result'[p] = "InvalidValue"

\* C10: an update_settings call that fails with InvalidValue changes no
\* settings row.
C10_ValidateBeforeWrite == [][UpdateRejected => settings' = settings]_vars

-----------------------------------------------------------------------------
(* Starting and stopping the watcher from two IPC threads, with the initial
   scan of the directory *)

\* files whose note gets indexed
LongFileTexts == [title : {NoTitle, "T1"}, body : {b \in FileBodies : NeedsIndex(b)}]

NextWatch ==
    \/ \E p \in StartThreads, d \in Directories : start_watching(p, d)
    \/ \E p \in StartThreads : start_stop(p)
    \/ \E p \in StartThreads : start_create(p)
    \/ \E p \in StartThreads : start_store(p)
    \/ \E p \in StartThreads : stop_watching(p)
    \/ \E p \in StartThreads : scan_walk(p)
    \/ \E p \in StartThreads : scan_loop(p)
    \/ \E p \in StartThreads : import_read(p)
    \/ \E p \in StartThreads : import_update(p)
    \/ \E p \in StartThreads : update_write(p)
    \/ \E p \in StartThreads : import_create(p)
    \/ \E p \in StartThreads : watcher_lookup(p)
    \/ \E p \in StartThreads : index_upsert(p)
    \/ \E p \in StartThreads : index_vec_delete(p)
    \/ \E p \in StartThreads : index_vec_insert(p)
    \/ \E p \in StartThreads : rebuild_read(p)
    \/ \E p \in StartThreads : rebuild_delete(p)
    \/ \E p \in StartThreads : rebuild_insert(p)
    \/ \E path \in Paths, file \in LongFileTexts : file_write(path, file)
    \/ \E path \in AllPaths \ Paths, file \in LongFileTexts \cap FileTexts :
           file_write(path, file)
    \/ \E path \in Paths : file_remove(path)

SpecWatch == Init /\ [][NextWatch]_vars

\* C11: after a successful start_watching(directory), get_settings reports
\* watch_directory equal to that directory.
C11_WatchDirectoryReported ==
    \A p \in StartThreads :
        (/\ pc[p] = "idle" /\ result[p] = "Ok"
         /\ watcher.some /\ watcher.v.by = p)
        => get_settings(settings).watch_directory = Some(watcher.v.watch_dir)

\* C12: at every moment at most one filesystem watcher (OS watcher with its
\* handler thread) is active.
C12_AtMostOneWatcher == Cardinality(live) <= 1

-----------------------------------------------------------------------------
(* The handler thread of a started watcher: file changes, other messages,
   the debounce and the processing of the drained paths *)

InitDebounce ==
    /\ notes = <<>>
    /\ notes_fts = EmptyBag
    /\ embeddings = <<>>
    /\ vec_embeddings = <<>>
    /\ similarity_cache = {}
    /\ settings = DefaultSettings
    /\ files = [p \in AllPaths |-> None]
    /\ nextId = 1
    /\ InitThreads
    /\ watcher = Some(NewWatcher("k1", "/notes"))
    /\ live = {NewWatcher("k1", "/notes")}

HandlerStep ==
    \/ \E p \in HandlerThreads : handler_recv(p)
    \/ \E p \in HandlerThreads : handler_timeout(p)
    \/ \E p \in HandlerThreads : handler_drain(p)
    \/ \E p \in HandlerThreads : import_read(p)
    \/ \E p \in HandlerThreads : import_update(p)
    \/ \E p \in HandlerThreads : update_write(p)
    \/ \E p \in HandlerThreads : import_create(p)
    \/ \E p \in HandlerThreads : watcher_lookup(p)
    \/ \E p \in HandlerThreads : watcher_delete_lookup(p)
    \/ \E p \in HandlerThreads : remove_embedding_1(p)
    \/ \E p \in HandlerThreads : remove_embedding_2(p)
    \/ \E p \in HandlerThreads : watcher_delete_row(p)
    \/ \E p \in HandlerThreads : index_upsert(p)
    \/ \E p \in HandlerThreads : index_vec_delete(p)
    \/ \E p \in HandlerThreads : index_vec_insert(p)
    \/ \E p \in HandlerThreads : rebuild_read(p)
    \/ \E p \in HandlerThreads : rebuild_delete(p)
    \/ \E p \in HandlerThreads : rebuild_insert(p)

Tick == \E d \in Delays : tick(d)

FsStep ==
    \/ \E path \in Paths, file \in LongFileTexts : fs_write(path, file)
    \/ \E path \in AllPaths \ Paths, file \in LongFileTexts \cap FileTexts :
           fs_write(path, file)
    \/ \E path \in AllPaths : fs_remove(path)
    \/ \E msg \in OtherMessages : fs_other(msg)

NextHandler == HandlerStep \/ Tick \/ FsStep

NextDebounce ==
    \/ NextHandler
    \/ \E p \in {"k1"} : stop_watching(p)
    \/ \E p \in HandlerThreads : handler_disconnected(p)

SpecDebounce == InitDebounce /\ [][NextDebounce]_vars

\* the same without stop_watching, for liveness: the handler thread runs
\* whenever it can and time passes; the messages that are not accepted come
\* one at a time with time passing in between (waited > 0), so that no
\* behavior sends infinitely many of them within zero time
FsStepPaced ==
    \/ \E path \in Paths, file \in LongFileTexts : fs_write(path, file)
    \/ \E path \in AllPaths \ Paths, file \in LongFileTexts \cap FileTexts :
           fs_write(path, file)
    \/ \E path \in AllPaths : fs_remove(path)
    \/ \E msg \in OtherMessages : waited > 0 /\ fs_other(msg)

NextDebounceLive == HandlerStep \/ Tick \/ FsStepPaced

SpecDebounceLive ==
    InitDebounce /\ [][NextDebounceLive]_vars /\ WF_vars(HandlerStep) /\ WF_vars(Tick)

\* C13: when the handler processes a path whose file is gone and a note has
\* that file_path, it removes the note's embedding (both embedding tables) and
\* the notes row and touches no file; when no note has that file_path the
\* database and the files are left as they are.
C13_RemovedNoteFrame ==
    [][\A p \in HandlerThreads :
          /\ (pc[p] \in {"wdel_lookup", "rm1", "rm2", "w_delrow"} /\ pc'[p] # pc[p])
                => files' = files
          /\ (pc[p] = "wdel_lookup" /\ pc'[p] # pc[p]
                /\ NoteIdByPath(notes, loc[p].path) # 0)
                => (pc'[p] = "rm1" /\ loc'[p].id = NoteIdByPath(notes, loc[p].path))
          /\ (pc[p] = "w_delrow" /\ pc'[p] # pc[p])
                => /\ loc[p].id \notin DOMAIN notes'
                   /\ loc[p].id \notin DOMAIN embeddings'
                   /\ loc[p].id \notin DOMAIN vec_embeddings'
                   /\ \A i \in DOMAIN notes \ {loc[p].id} :
                          i \in DOMAIN notes' /\ notes'[i] = notes[i]
          /\ (pc[p] = "wdel_lookup" /\ pc'[p] # pc[p]
                /\ NoteIdByPath(notes, loc[p].path) = 0)
                => UNCHANGED <<DbVars, files>>]_vars

\* a note was imported and indexed, its file removed, and the handler has
\* removed the note again
C13_Witness ==
    /\ pc["h"] = "drain"
    /\ nextId > 1
    /\ DOMAIN notes = {}
    /\ DOMAIN vec_embeddings = {}
    /\ \A x \in AllPaths : ~files[x].some

\* C14: the handler starts processing only on a timeout of 500 ms without a
\* message and with last_event at least 500 ms old; it then takes every
\* distinct pending path exactly once and leaves pending_paths empty; paths
\* leave pending_paths in no other way, and each drained path is processed
\* once, in turn.
C14_DebouncedDrain ==
    [][\A p \in HandlerThreads :
          /\ (pc[p] = "idle" /\ pc'[p] = "drain")
                => /\ rx = <<>>
                   /\ waited >= recv_timeout_ms
                   /\ last_event >= debounce_elapsed_ms
                   /\ pending_paths # {}
                   /\ pending_paths' = {}
                   /\ Len(loc'[p].todo) = Cardinality(pending_paths)
                   /\ {loc'[p].todo[i] : i \in DOMAIN loc'[p].todo} = pending_paths
          /\ ~(pending_paths \subseteq pending_paths')
                => (pc[p] = "idle" /\ pc'[p] = "drain")
          /\ (pc'[p] \in {"imp_read", "wdel_lookup"} /\ pc'[p] # pc[p])
                => /\ pc[p] = "drain"
                   /\ loc[p].todo # <<>>
                   /\ loc'[p].path = Head(loc[p].todo)
                   /\ loc'[p].todo = Tail(loc[p].todo)
          /\ pc[p] \notin {"idle", "drain"} => loc'[p].todo = loc[p].todo]_vars

\* both paths were written and removed again before anything was imported,
\* and the handler has drained the two of them
C14_Witness ==
    /\ pc["h"] = "drain"
    /\ Len(loc["h"].todo) = 2
    /\ pending_paths = {}
    /\ nextId = 1
    /\ \A x \in AllPaths : ~files[x].some

\* a message in the channel that will put a path into pending_paths
AcceptedQueued ==
    \E i \in DOMAIN rx :
        /\ rx[i].ok
        /\ should_process_event(rx[i])
        /\ AcceptedPaths(rx[i]) # {}

\* C15: every accepted path is eventually processed once the accepted events
\* quiesce, whatever other messages keep arriving: a path that is pending
\* leaves pending_paths unless another accepted event is on its way.
C15_AcceptedEventuallyProcessed ==
    \A x \in AllPaths :
        (x \in pending_paths) ~> (x \notin pending_paths \/ AcceptedQueued)

-----------------------------------------------------------------------------
(* The note commands with arbitrary titles and contents, next to the watcher
   thread removing the notes of files that are gone *)

ApiTitles == {"", "  ", " T1 ", "T500", "T501"}
ApiContents == { <<"a">>, <<"a", "b">>, <<"a", "big">>, <<"huge">> }

NextApi ==
    \/ \E p \in ApiThreads, t \in ApiTitles, c \in ApiContents,
          f \in {NoFile} \cup Paths :
           cmd_create_note(p, t, c, f)
    \/ \E p \in ApiThreads, id \in 1..MaxNotes,
          t \in {None} \cup {Some(x) : x \in ApiTitles},
          c \in {None} \cup {Some(x) : x \in ApiContents} :
           cmd_update_note(p, id, t, c)
    \/ \E p \in ApiThreads : update_write(p)
    \/ \E p \in WatcherThreads : remove_embedding_1(p)
    \/ \E p \in WatcherThreads : remove_embedding_2(p)
    \/ \E p \in WatcherThreads, path \in Paths : process_file_change(p, path)
    \/ \E p \in WatcherThreads : watcher_delete_lookup(p)
    \/ \E p \in WatcherThreads : watcher_delete_row(p)

SpecApi == Init /\ [][NextApi]_vars

\* the stored columns that the validations of create_note and update_note bound
StoredNoteValid(n) ==
    /\ trim(n.title) = n.title
    /\ n.title # ""
    /\ str_len(n.title) <= max_title_len
    /\ content_len(n.content) <= max_content_len

TitleRejected(t) == trim(t) = "" \/ str_len(trim(t)) > max_title_len
ContentRejected(c) == content_len(c) > max_content_len

\* C16: create_note and update_note answer a title that is empty after
\* trimming or longer than 500 bytes with ValidationError and a content of
\* more than 2 MiB with ContentTooLarge (update_note on an id that exists),
\* and leave the notes table as it is; every stored note has a trimmed,
\* non-empty title of at most 500 bytes and a content of at most 2 MiB.
C16_ValidatedNotes ==
    /\ [][\A p \in ApiThreads, t \in ApiTitles, c \in ApiContents :
            /\ \A f \in {NoFile} \cup Paths :
                  ((TitleRejected(t) \/ ContentRejected(c)) /\ cmd_create_note(p, t, c, f))
                    => /\ notes' = notes
                       /\ result'[p] = IF TitleRejected(t) THEN "ValidationError"
                                       ELSE "ContentTooLarge"
            /\ \A id \in DOMAIN notes :
                  ((TitleRejected(t) \/ ContentRejected(c))
                     /\ cmd_update_note(p, id, Some(t), Some(c)))
                    => /\ notes' = notes
                       /\ pc'[p] = "idle"
                       /\ result'[p] = IF TitleRejected(t) THEN "ValidationError"
                                       ELSE "ContentTooLarge"]_vars
    /\ [](\A i \in DOMAIN notes : StoredNoteValid(notes[i]))

\* a note of exactly 2 MiB with a title of 500 bytes is stored, and the last
\* call was rejected for its content
C16_Witness ==
    /\ \E i \in DOMAIN notes :
          /\ str_len(notes[i].title) = max_title_len
          /\ content_len(notes[i].content) = max_content_len
    /\ result["v"] = "ContentTooLarge"

\* C17: create_note with a file_path that a stored note already holds fails
\* with AlreadyExists and leaves the notes table as it is; no two notes share
\* a file_path.
C17_DuplicatePathAlreadyExists ==
    /\ [][\A p \in ApiThreads, t \in ApiTitles, c \in ApiContents, f \in Paths :
            (/\ ~TitleRejected(t) /\ ~ContentRejected(c)
             /\ NoteIdByPath(notes, f) # 0
             /\ cmd_create_note(p, t, c, f))
              => (result'[p] = "AlreadyExists" /\ notes' = notes)]_vars
    /\ [](\A i, j \in DOMAIN notes :
            (i # j /\ notes[i].file_path # NoFile)
              => notes[i].file_path # notes[j].file_path)

\* C18: update_note fails with NotFound whenever no row with the id exists
\* when the UPDATE is applied, and answers with a Note only if the row then
\* holds the returned title, content and word_count.
C18_UpdateOfMissingRowNotFound ==
    [][\A p \in ApiThreads :
          update_write(p)
            => IF loc[p].id \notin DOMAIN notes
               THEN result'[p] = "NotFound"
               ELSE /\ result'[p] = "Ok"
                    /\ notes'[loc[p].id].title = loc[p].title
                    /\ notes'[loc[p].id].content = loc[p].content
                    /\ notes'[loc[p].id].word_count
                         = split_whitespace_count(loc[p].content)]_vars

\* C19: after any sequence of create_note, update_note and watcher imports,
\* the word_count of every note is the number of whitespace-separated tokens
\* of its stored content.
C19_WordCountMatchesContent ==
    \A i \in DOMAIN notes : notes[i].word_count = Len(notes[i].content)

\* the watcher has just written the note of a file whose body has two
\* tokens, next to a note of one token
C19_Witness ==
    /\ pc["w"] = "w_lookup"
    /\ \E i, j \in DOMAIN notes :
          /\ notes[i].file_path = loc["w"].path
          /\ notes[i].word_count = 2
          /\ notes[j].word_count = 1

-----------------------------------------------------------------------------
(* SearchService::hybrid_search (services/search.rs) *)

\* a u32 is kept as its bit 31 (top) and its bits 0..30 (low): its value is
\* top * 2^31 + low
U32(top, low) == [top |-> top, low |-> low]

Limits == {U32(0, 0), U32(0, 1), U32(0, 2), U32(0, 2 ^ 30),
           U32(1, 0), U32(1, 1), U32(1, 2 ^ 30)}

\* the smaller of a u32 and a length
Capped(u, n) == IF u.top = 1 THEN n ELSE Min(u.low, n)

\* the rows of a query in the order of its ORDER BY: note ids, each once
Rankings(ids) == UNION {Orders(S) : S \in SUBSET ids}

\* the first rows of a list: LIMIT, Vec::truncate
Take(seq, u) == SubSeq(seq, 1, Capped(u, Len(seq)))

Elements(seq) == {seq[i] : i \in DOMAIN seq}

\* fulltext_search and semantic_search: the rows of the query, LIMIT ?2
fulltext_search(ranking, limit) == Take(ranking, limit)
semantic_search(ranking, limit) == Take(ranking, limit)

\* scores are fractions <<numerator, denominator>>
Zero == <<0, 1>>
Plus(x, y) == <<x[1] * y[2] + y[1] * x[2], x[2] * y[2]>>
Greater(x, y) == x[1] * y[2] > y[1] * x[2]

\* 1.0 / (k + rank as f64 + 1.0) with k = 60.0, rank counted from 0
rrf_k == 60
rrf_score_without_k(rank) == <<1, rank + 1>>
rrf_score(rank) == <<1, rrf_k + rank + 1>>

\* the score a list adds to the entry of id
ListScore(list, id) ==
    IF \E i \in DOMAIN list : list[i] = id
    THEN rrf_score((CHOOSE i \in DOMAIN list : list[i] = id) - 1)
    ELSE Zero

\* the entry of rrf_scores for id after both loops
FusedNeverBoth(fts_results, sem_results, id) ==
    [id |-> id,
     score |-> Plus(ListScore(fts_results, id), ListScore(sem_results, id)),
     match_type |-> IF id \in Elements(fts_results) THEN "fulltext" ELSE "semantic"]
Fused(fts_results, sem_results, id) ==
    [id |-> id,
     score |-> Plus(ListScore(fts_results, id), ListScore(sem_results, id)),
     match_type |-> IF id \in Elements(fts_results)
                    THEN (IF id \in Elements(sem_results) THEN "both" ELSE "fulltext")
                    ELSE "semantic"]

\* combined.sort_by(|a, b| b.score.partial_cmp(&a.score)): a stable sort,
\* greater scores first
RECURSIVE InsertByScore(_, _)
InsertByScore(x, sorted) ==
    IF sorted = <<>> THEN <<x>>
    ELSE IF Greater(x.score, Head(sorted).score) THEN <<x>> \o sorted
    ELSE <<Head(sorted)>> \o InsertByScore(x, Tail(sorted))

RECURSIVE sort_by(_)
sort_by(combined) ==
    IF combined = <<>> THEN <<>>
    ELSE InsertByScore(combined[Len(combined)],
                       sort_by(SubSeq(combined, 1, Len(combined) - 1)))

\* limit * 2 on u32: a build with overflow checks panics when the product
\* does not fit, a build without them wraps
Doubled(limit) ==
    U32(IF limit.low >= 2 ^ 30 THEN 1 ELSE 0, (limit.low % (2 ^ 30)) * 2)
Overflows(limit) == limit.top = 1

\* hybrid_search(query, limit); fts and sem are the rows the two queries of
\* `query` match, in their ORDER BY order; the HashMap is iterated in any order
hybrid_search(limit, fts, sem) ==
    /\ \/ /\ Overflows(limit)
          /\ search' = [called |-> TRUE, limit |-> limit, fts |-> fts, sem |-> sem,
                        outcome |-> "panic", results |-> <<>>]
       \/ LET fts_results == fulltext_search(fts, Doubled(limit))
              sem_results == semantic_search(sem, Doubled(limit))
              ids == Elements(fts_results) \cup Elements(sem_results)
          IN  \E order \in Orders(ids) :
                 LET combined == [i \in DOMAIN order |->
                                    Fused(fts_results, sem_results, order[i])]
                 IN  search' = [called |-> TRUE, limit |-> limit, fts |-> fts,
                                sem |-> sem, outcome |-> "Ok",
                                results |-> Take(sort_by(combined), limit)]
    /\ UNCHANGED <<DbVars, OtherVars, write_holder, pc, loc, result, WatchVars,
                   HandlerVars, LinkVars, ExtraVars>>

NextSearch ==
    \E limit \in Limits, fts \in Rankings(DOMAIN notes),
       sem \in Rankings(DOMAIN vec_embeddings \cap DOMAIN notes) :
        \* one call in a behavior: a search changes nothing a later one reads
        ~search.called /\ hybrid_search(limit, fts, sem)

SpecSearch == InitGraph /\ [][NextSearch]_vars

\* the sum of 1/(60 + r) over the 1-based ranks r of id in a list
RankSum(list, id) ==
    IF \E r \in DOMAIN list : list[r] = id
    THEN <<1, 60 + (CHOOSE r \in DOMAIN list : list[r] = id)>>
    ELSE <<0, 1>>

\* C20: a hybrid search fetches the full-text and the semantic list with
\* 2 * limit each and returns the notes of the two lists, each at most once,
\* with the sum of 1/(60 + r) over its ranks r as score, in non-increasing
\* order of score, at most limit of them.
C20_HybridFusion ==
    search.called =>
        LET twice == IF search.limit.top = 1 \/ search.limit.low >= 2 ^ 30
                     THEN U32(1, 0) ELSE U32(0, 2 * search.limit.low)
            F == SubSeq(search.fts, 1, Capped(twice, Len(search.fts)))
            S == SubSeq(search.sem, 1, Capped(twice, Len(search.sem)))
            ids == Elements(F) \cup Elements(S)
            r == search.results
        IN  /\ search.outcome = "Ok"
            /\ Len(r) = Capped(search.limit, Cardinality(ids))
            /\ \A i \in DOMAIN r :
                  /\ r[i].id \in ids
                  /\ r[i].score[1] * (RankSum(F, r[i].id)[2] * RankSum(S, r[i].id)[2])
                       = (RankSum(F, r[i].id)[1] * RankSum(S, r[i].id)[2]
                          + RankSum(S, r[i].id)[1] * RankSum(F, r[i].id)[2])
                         * r[i].score[2]
            /\ \A i, j \in DOMAIN r : i # j => r[i].id # r[j].id
            /\ \A i, j \in DOMAIN r :
                  i < j => r[i].score[1] * r[j].score[2] >= r[j].score[1] * r[i].score[2]
            /\ \A x \in ids :
                  (\A i \in DOMAIN r : r[i].id # x)
                    => \A i \in DOMAIN r :
                          r[i].score[1] * (RankSum(F, x)[2] * RankSum(S, x)[2])
                            >= (RankSum(F, x)[1] * RankSum(S, x)[2]
                                + RankSum(S, x)[1] * RankSum(F, x)[2]) * r[i].score[2]

\* C21: in a hybrid search result, match_type is both exactly when the note
\* is in the full-text list and in the semantic list, fulltext exactly when
\* it is only in the full-text list, semantic exactly when it is only in the
\* semantic list.
C21_MatchTypeNamesTheLists ==
    (search.called /\ search.outcome = "Ok") =>
        LET F == Elements(fulltext_search(search.fts, Doubled(search.limit)))
            S == Elements(semantic_search(search.sem, Doubled(search.limit)))
            r == search.results
        IN  \A i \in DOMAIN r :
               /\ r[i].match_type = "both" <=> (r[i].id \in F /\ r[i].id \in S)
               /\ r[i].match_type = "fulltext" <=> (r[i].id \in F /\ r[i].id \notin S)
               /\ r[i].match_type = "semantic" <=> (r[i].id \notin F /\ r[i].id \in S)

\* a result with a note of both lists and a note of the full-text list only
C21_Witness ==
    /\ search.called /\ search.outcome = "Ok"
    /\ \E i, j \in DOMAIN search.results :
          /\ search.results[i].match_type = "both"
          /\ search.results[j].match_type = "fulltext"

-----------------------------------------------------------------------------
(* The fused scores of hybrid_search on lists of many rows *)

MaxRows == 63

\* the full-text rows: notes 1..MaxRows in rank order
FusionFts == [i \in 1..MaxRows |-> i]

\* the semantic rows: note a at rank b, at the other ranks notes that the
\* full-text query does not match
FusionSem(a, b) == [i \in 1..MaxRows |-> IF i = b THEN a ELSE MaxRows + i]

FusionRanks == {1, 2} \cup ((MaxRows - 3)..MaxRows)
FusionLimits == {U32(0, 1), U32(0, 30), U32(0, 31), U32(0, 32)}

\* hybrid_search up to the end of its two loops: the entries of rrf_scores
fuse_scores(limit, fts, sem) ==
    /\ ~Overflows(limit)
    /\ LET fts_results == fulltext_search(fts, Doubled(limit))
           sem_results == semantic_search(sem, Doubled(limit))
           ids == Elements(fts_results) \cup Elements(sem_results)
       IN  search' = [called |-> TRUE, limit |-> limit, fts |-> fts, sem |-> sem,
                      outcome |-> "Ok",
                      rrf_scores |-> {Fused(fts_results, sem_results, id) : id \in ids}]
    /\ UNCHANGED <<DbVars, OtherVars, write_holder, pc, loc, result, WatchVars,
                   HandlerVars, LinkVars, ExtraVars>>

NextFusion ==
    \E limit \in FusionLimits, a \in FusionRanks, b \in FusionRanks :
        ~search.called /\ fuse_scores(limit, FusionFts, FusionSem(a, b))

SpecFusion == Init /\ [][NextFusion]_vars

\* the 1-based rank of id in the rows fetched from a list
FetchedRank(list, id) ==
    CHOOSE r \in 1..Len(list) : list[r] = id

BothEntries == {x \in search.rrf_scores : x.match_type = "both"}
SingleEntries == {x \in search.rrf_scores : x.match_type # "both"}

\* C22 as stated: for every limit and every pair of lists, a note of both
\* lists has a strictly greater fused score than any note of one list only.
C22_BothBeatsSingle ==
    search.called =>
        \A x \in BothEntries, y \in SingleEntries : Greater(x.score, y.score)

\* C22, amended: a note of both lists has a strictly greater fused score
\* than any note of one list only when its two ranks are at most 60, hence
\* for every limit up to 30 (at most 60 rows fetched from each list).
C22_BothBeatsSingleWithin60 ==
    search.called =>
        /\ \A x \in BothEntries, y \in SingleEntries :
              (/\ FetchedRank(search.fts, x.id) <= 60
               /\ FetchedRank(search.sem, x.id) <= 60)
                => Greater(x.score, y.score)
        /\ (search.limit.top = 0 /\ search.limit.low <= 30)
              => \A x \in BothEntries, y \in SingleEntries : Greater(x.score, y.score)

\* limit 30: the note at rank 60 of both lists, next to notes of one list
C22_Witness ==
    /\ search.called
    /\ search.limit = U32(0, 30)
    /\ \E x \in BothEntries :
          /\ FetchedRank(search.fts, x.id) = 60
          /\ FetchedRank(search.sem, x.id) = 60
    /\ SingleEntries # {}

-----------------------------------------------------------------------------
(* LinkService (services/link.rs) *)

cache_capacity == 64
MaxOthers == 65

\* contents of this section are sequences of numbers: the tracked content,
\* a content of one token, and MaxOthers other contents of three tokens
TrackedContent == <<0, 0, 0>>
OneToken == <<0>>
OtherContent(k) == <<k, k, k>>
OtherContents == {OtherContent(k) : k \in 1..MaxOthers}

\* SHA-256 hex of the content: distinct contents, distinct keys
content_hash(content) == <<"sha256", content>>

\* LruCache: a sequence of [key, value], most recently used first
LruContains(c, key) == \E i \in DOMAIN c : c[i].key = key
LruIndex(c, key) == CHOOSE i \in DOMAIN c : c[i].key = key
LruWithout(c, i) == SubSeq(c, 1, i - 1) \o SubSeq(c, i + 1, Len(c))

\* LruCache::get on a key it holds: the entry becomes the most recently used
LruGet(c, key) == <<c[LruIndex(c, key)]>> \o LruWithout(c, LruIndex(c, key))

\* LruCache::put: replaces the entry of the key, or evicts the least recently
\* used entry of a full cache, and makes the new entry the most recently used
LruPutEvictingAll(c, key, value) == <<[key |-> key, value |-> value]>>
LruPut(c, key, value) ==
    IF LruContains(c, key)
    THEN <<[key |-> key, value |-> value]>> \o LruWithout(c, LruIndex(c, key))
    ELSE IF Len(c) >= cache_capacity
    THEN <<[key |-> key, value |-> value]>> \o SubSeq(c, 1, cache_capacity - 1)
    ELSE <<[key |-> key, value |-> value]>> \o c

\* the rows of the KNN query at the time of a call, nearest first;
\* similarities (1.0 - distance) and thresholds are in tenths
Link(note_id, similarity) == [note_id |-> note_id, similarity |-> similarity]
LinkRows == { <<Link(1, 8), Link(2, 2)>>, <<Link(2, 8), Link(1, 8)>> }
\* the arguments of a call: exclude_note_id, threshold, limit
LinkCall(exclude, threshold, limit) ==
    [exclude |-> exclude, threshold |-> threshold, limit |-> limit]
LinkCalls == { LinkCall(None, 0, U32(0, 2)), LinkCall(Some(1), 0, U32(0, 2)),
               LinkCall(Some(1), 5, U32(0, 1)), LinkCall(None, 5, U32(1, 0)) }

\* (limit * 3).max(20) in u32, for limits whose bits 0..30 are below 2^29
FetchLimitOverflows(limit) == limit.top = 1
FetchLimit(limit) ==
    IF limit.top = 1 THEN U32(1, 3 * limit.low)
    ELSE U32(0, IF 3 * limit.low > 20 THEN 3 * limit.low ELSE 20)

\* the two retain calls and the truncate
FilterLinksKeepingExcluded(links, exclude, threshold, limit) ==
    LET Keep(l) == l.similarity >= threshold
    IN  Take(SelectSeq(links, Keep), limit)
FilterLinks(links, exclude, threshold, limit) ==
    LET Keep(l) == /\ (exclude.some => l.note_id # exclude.v)
                   /\ l.similarity >= threshold
    IN  Take(SelectSeq(links, Keep), limit)

\* the record of a call; calls on the other contents are only counted: used
\* is their number, others the number of them since the cache last put or got
\* the entry of the tracked content
Tracked(content, rec) ==
    IF content \in OtherContents
    THEN [latent EXCEPT !.others = @ + 1, !.used = @ + 1]
    ELSE [called |-> TRUE, content |-> content, exclude |-> rec.exclude,
          threshold |-> rec.threshold, limit |-> rec.limit, outcome |-> rec.outcome,
          hit |-> rec.hit, candidates |-> rec.candidates, links |-> rec.links,
          others |-> IF content = TrackedContent /\ rec.outcome = "Ok"
                     THEN 0 ELSE latent.others,
          used |-> latent.used]

\* compute_latent_links(content, exclude_note_id, threshold, limit); rows are
\* the rows the query of a miss returns
compute_latent_links(content, exclude, threshold, limit, rows) ==
    /\ LET key == content_hash(content)
           call == [exclude |-> exclude, threshold |-> threshold, limit |-> limit]
       IN  IF split_whitespace_count(content) < 3
           THEN /\ latent' = Tracked(content, call @@ [outcome |-> "Ok", hit |-> FALSE,
                                                       candidates |-> <<>>, links |-> <<>>])
                /\ UNCHANGED link_cache
           ELSE IF LruContains(link_cache, key)
           THEN LET cached == link_cache[LruIndex(link_cache, key)].value IN
                /\ link_cache' = LruGet(link_cache, key)
                /\ latent' = Tracked(content, call @@
                       [outcome |-> "Ok", hit |-> TRUE, candidates |-> cached,
                        links |-> FilterLinks(cached, exclude, threshold, limit)])
           ELSE \/ /\ FetchLimitOverflows(limit)
                   /\ latent' = Tracked(content, call @@
                          [outcome |-> "panic", hit |-> FALSE, candidates |-> <<>>,
                           links |-> <<>>])
                   /\ UNCHANGED link_cache
                \/ LET links == Take(rows, FetchLimit(limit)) IN
                   /\ link_cache' = LruPut(link_cache, key, links)
                   /\ latent' = Tracked(content, call @@
                          [outcome |-> "Ok", hit |-> FALSE, candidates |-> links,
                           links |-> FilterLinks(links, exclude, threshold, limit)])
    /\ UNCHANGED <<DbVars, OtherVars, write_holder, pc, loc, result, WatchVars,
                   HandlerVars, search, ExtraVars>>

NextLinks ==
    \/ \E content \in {TrackedContent, OneToken}, c \in LinkCalls, rows \in LinkRows :
           compute_latent_links(content, c.exclude, c.threshold, c.limit, rows)
    \/ /\ latent.used < MaxOthers
       /\ compute_latent_links(OtherContent(latent.used + 1), None, 0, U32(0, 1), <<>>)

SpecLinks == Init /\ [][NextLinks]_vars

\* C23: compute_latent_links, on a hit as on a miss, returns at most limit
\* links, none of the excluded note, none below the threshold, in the order
\* of the candidate list; for a content of fewer than 3 tokens it returns the
\* empty list and leaves the cache as it is.
C23_FilteredLinks ==
    /\ [](latent.called /\ latent.outcome = "Ok" =>
            LET l == latent.links IN
            /\ Len(l) <= Capped(latent.limit, Len(l))
            /\ \A i \in DOMAIN l :
                  /\ latent.exclude.some => l[i].note_id # latent.exclude.v
                  /\ l[i].similarity >= latent.threshold
            /\ \E f \in [DOMAIN l -> DOMAIN latent.candidates] :
                  /\ \A i \in DOMAIN l : l[i] = latent.candidates[f[i]]
                  /\ \A i, j \in DOMAIN l : i < j => f[i] < f[j])
    /\ [][\A c \in LinkCalls, rows \in LinkRows :
             compute_latent_links(OneToken, c.exclude, c.threshold, c.limit, rows)
               => (latent'.links = <<>> /\ link_cache' = link_cache)]_vars

\* a hit on a cached list of two candidates of which the excluded one is dropped
C23_Witness ==
    /\ latent.called /\ latent.outcome = "Ok" /\ latent.hit
    /\ Len(latent.candidates) = 2
    /\ latent.exclude = Some(1)
    /\ Len(latent.links) = 1

\* C24: a call with the content of an earlier call returns the candidates of
\* the earlier call, in the same order and from the cache, as long as fewer
\* than 64 other contents were put into the cache in between.
C24_RepeatCallSameCandidates ==
    [][\A c \in LinkCalls, rows \in LinkRows :
          (/\ latent.called /\ latent.content = TrackedContent
           /\ latent.outcome = "Ok"
           /\ latent.others < 64
           /\ compute_latent_links(TrackedContent, c.exclude, c.threshold, c.limit, rows))
            => /\ latent'.hit
               /\ latent'.candidates = latent.candidates
               /\ latent'.links
                    = FilterLinks(latent.candidates, c.exclude, c.threshold, c.limit)]_vars

\* a hit after 63 other contents
C24_Witness ==
    /\ latent.called /\ latent.content = TrackedContent /\ latent.hit
    /\ latent.candidates # <<>>
    /\ Len(link_cache) = 64
    /\ link_cache[1].key = content_hash(TrackedContent)
    /\ link_cache[64].key = content_hash(OtherContent(1))

-----------------------------------------------------------------------------
(* rebuild_full_cache alone on a database of embedded notes *)

MaxEmbedded == 4

\* rows an earlier state of the notes left in similarity_cache
StaleCaches == { {}, {EdgeRow(<<1, 2>>, 7)}, {EdgeRow(<<2, MaxEmbedded + 1>>, 7)} }

InitFullRebuild ==
    /\ \E n \in 0..MaxEmbedded, contentOf \in [1..MaxEmbedded -> LongContents] :
          /\ notes = [i \in 1..n |->
                        [rowid |-> i, title |-> "T1", content |-> contentOf[i],
                         file_path |-> NoFile,
                         word_count |-> split_whitespace_count(contentOf[i])]]
          /\ \A i \in (n + 1)..MaxEmbedded : contentOf[i] = contentOf[1]
          /\ notes_fts = SetToBag({FtsRow(notes[i]) : i \in 1..n})
          /\ embeddings = [i \in 1..n |-> embedding_to_blob(embed_text(contentOf[i]))]
    /\ vec_embeddings = embeddings
    /\ similarity_cache \in StaleCaches
    /\ settings = DefaultSettings
    /\ files = [p \in AllPaths |-> None]
    /\ nextId = Len(notes) + 1
    /\ InitThreads
    /\ InitWatcher

NextFullRebuild ==
    \/ \E p \in GraphThreads : rebuild_full_read(p)
    \/ \E p \in GraphThreads : rebuild_full_delete(p)
    \/ \E p \in GraphThreads : rebuild_full_insert(p)

SpecFullRebuild == InitFullRebuild /\ [][NextFullRebuild]_vars

UnorderedPairs(S) == {p \in S \X S : p[1] < p[2]}

\* C25: when rebuild_full_cache has returned, with n embedded notes and no
\* other writer, similarity_cache holds exactly n*(n-1)/2 rows, one for every
\* unordered pair of embedded notes, and the call returned that number.
C25_FullRebuildCountsPairs ==
    (graph.called /\ graph.op = "rebuild_full_cache" /\ pc["g"] = "idle") =>
        LET n == Cardinality(DOMAIN embeddings) IN
        /\ graph.outcome = "Ok"
        /\ graph.count = (n * (n - 1)) \div 2
        /\ Cardinality(similarity_cache) = (n * (n - 1)) \div 2
        /\ \A p \in UnorderedPairs(DOMAIN embeddings) :
              Cardinality({r \in similarity_cache : SameKey(r, p)}) = 1
        /\ \A r \in similarity_cache :
              <<r.note_id_a, r.note_id_b>> \in UnorderedPairs(DOMAIN embeddings)

\* a full rebuild of three embedded notes over a stale row has returned
C25_Witness ==
    /\ graph.called /\ graph.op = "rebuild_full_cache" /\ pc["g"] = "idle"
    /\ Cardinality(DOMAIN embeddings) = 3
    /\ graph.count = 3
    /\ EdgeRow(<<2, MaxEmbedded + 1>>, 7) \notin similarity_cache

-----------------------------------------------------------------------------
(* GraphService::get_graph and union_find_clusters *)

MaxGraphNotes == 4

\* find: the root of i; every node on the way to it is made to point to it
RECURSIVE FindRoot(_, _)
FindRoot(parent, i) == IF parent[i] = i THEN i ELSE FindRoot(parent, parent[i])
RECURSIVE PathToRoot(_, _)
PathToRoot(parent, i) ==
    IF parent[i] = i THEN {} ELSE {i} \cup PathToRoot(parent, parent[i])
find(parent, i) ==
    LET root == FindRoot(parent, i)
        path == PathToRoot(parent, i)
    IN  [root |-> root,
         parent |-> [k \in DOMAIN parent |-> IF k \in path THEN root ELSE parent[k]]]

\* union: the root of a is made a child of the root of b
unionOfNodes(parent, a, b) == [parent EXCEPT ![a] = b]
union(parent, a, b) ==
    LET fa == find(parent, a)
        fb == find(fa.parent, b)
    IN  IF fa.root # fb.root THEN [fb.parent EXCEPT ![fa.root] = fb.root]
        ELSE fb.parent

\* id_to_idx, with positions counted from 1
HasIdx(ids, id) == \E i \in DOMAIN ids : ids[i] = id
IdxOf(ids, id) == CHOOSE i \in DOMAIN ids : ids[i] = id

\* the loop over the edges: an edge with an endpoint outside ids is skipped
RECURSIVE UnionEdges(_, _, _)
UnionEdges(parent, ids, edges) ==
    IF edges = <<>> THEN parent
    ELSE LET edge == Head(edges) IN
         IF HasIdx(ids, edge.source) /\ HasIdx(ids, edge.target)
         THEN UnionEdges(union(parent, IdxOf(ids, edge.source), IdxOf(ids, edge.target)),
                         ids, Tail(edges))
         ELSE UnionEdges(parent, ids, Tail(edges))

\* the loop that maps roots to cluster ids, from position i on
RECURSIVE MapRoots(_, _, _, _, _, _)
MapRoots(parent, ids, i, root_to_cluster, next_cluster, assigned) ==
    IF i > Len(ids) THEN assigned
    ELSE LET f == find(parent, i) IN
         IF f.root \in DOMAIN root_to_cluster
         THEN MapRoots(f.parent, ids, i + 1, root_to_cluster, next_cluster,
                       assigned @@ (ids[i] :> root_to_cluster[f.root]))
         ELSE MapRoots(f.parent, ids, i + 1,
                       root_to_cluster @@ (f.root :> next_cluster), next_cluster + 1,
                       assigned @@ (ids[i] :> next_cluster))

union_find_clusters(ids, edges) ==
    MapRoots(UnionEdges([i \in DOMAIN ids |-> i], ids, edges), ids, 1, <<>>, 0, <<>>)

\* seq lists every element of S once
IsOrderOf(seq, S) ==
    /\ Len(seq) = Cardinality(S)
    /\ {seq[i] : i \in DOMAIN seq} = S

GraphEdge(r) == [source |-> r.note_id_a, target |-> r.note_id_b, weight |-> r.similarity]

\* get_graph(_, threshold): rows are the notes and cached are the
\* similarity_cache rows at or above the threshold, in the order the two
\* SELECTs return them
get_graph(threshold, rows, cached) ==
    /\ IsOrderOf(rows, DOMAIN notes)
    /\ IsOrderOf(cached, {r \in similarity_cache : r.similarity >= threshold})
    /\ LET edges == IF rows = <<>> THEN <<>>
                    ELSE [i \in DOMAIN cached |-> GraphEdge(cached[i])]
       IN  \E clusters \in {union_find_clusters(rows, edges)} :
           graph' = [called |-> TRUE, op |-> "get_graph", threshold |-> threshold,
                     nodes |-> [i \in DOMAIN rows |->
                                  [id |-> rows[i], title |-> notes[rows[i]].title,
                                   cluster |-> IF rows[i] \in DOMAIN clusters
                                               THEN clusters[rows[i]] ELSE 0]],
                     edges |-> edges]
    /\ UNCHANGED <<DbVars, OtherVars, write_holder, pc, loc, result, WatchVars,
                   HandlerVars, search, LinkVars, store, snapshot, locks>>

\* the thresholds of the calls, in hundredths
GraphThresholds == {70}

\* the rows similarity_cache may hold: at the threshold or below it, between
\* notes and the id of a note that no longer exists
GraphRows ==
    {EdgeRow(p, 70) : p \in UnorderedPairs(1..MaxGraphNotes)}
      \cup {EdgeRow(<<1, 2>>, 69), EdgeRow(<<MaxGraphNotes, MaxGraphNotes + 1>>, 70)}

InitGetGraph ==
    /\ \E n \in 0..MaxGraphNotes :
          /\ notes = [i \in 1..n |->
                        [rowid |-> i, title |-> "T1", content |-> <<"a", "b", "c">>,
                         file_path |-> NoFile, word_count |-> 3]]
          /\ notes_fts = SetToBag({FtsRow(notes[i]) : i \in 1..n})
    /\ embeddings = <<>>
    /\ vec_embeddings = <<>>
    /\ similarity_cache \in {c \in SUBSET GraphRows :
                                /\ Cardinality(c) <= 3
                                /\ \A r, q \in c : SameKey(r, <<q.note_id_a, q.note_id_b>>)
                                                      => r = q}
    /\ settings = DefaultSettings
    /\ files = [p \in AllPaths |-> None]
    /\ nextId = Len(notes) + 1
    /\ InitThreads
    /\ InitWatcher

NextGetGraph ==
    /\ ~graph.called
    /\ \E threshold \in GraphThresholds, rows \in Orders(DOMAIN notes) :
          \E cached \in Orders({r \in similarity_cache : r.similarity >= threshold}) :
             get_graph(threshold, rows, cached)

SpecGetGraph == InitGetGraph /\ [][NextGetGraph]_vars

\* the cached edges at or above the threshold between two existing notes
LiveEdges ==
    {<<r.note_id_a, r.note_id_b>> : r \in {q \in similarity_cache :
         /\ q.similarity >= graph.threshold
         /\ q.note_id_a \in DOMAIN notes /\ q.note_id_b \in DOMAIN notes}}

\* the notes a path of live edges leads to from the notes of S
RECURSIVE Reach(_)
Reach(S) ==
    LET T == S \cup {e[2] : e \in {d \in LiveEdges : d[1] \in S}}
                \cup {e[1] : e \in {d \in LiveEdges : d[2] \in S}}
    IN  IF T = S THEN S ELSE Reach(T)

\* C26: get_graph gives two notes the same cluster id exactly when a path of
\* cached edges at or above the threshold, between existing notes, connects
\* them; a note without such an edge shares its id with no other note; the
\* ids are 0..k-1 in the order in which the first member of each cluster
\* appears in the list of notes.
C26_ClustersAreComponents ==
    (graph.called /\ graph.op = "get_graph") =>
        LET nodes == graph.nodes IN
        /\ {nodes[i].id : i \in DOMAIN nodes} = DOMAIN notes
        /\ \A i, j \in DOMAIN nodes :
              (nodes[i].cluster = nodes[j].cluster) <=> (nodes[j].id \in Reach({nodes[i].id}))
        /\ \A i \in DOMAIN nodes :
              LET earlier == {nodes[j].cluster : j \in 1..(i - 1)} IN
              nodes[i].cluster \notin earlier => nodes[i].cluster = Cardinality(earlier)

\* four notes: the first two listed lie in different clusters, the fourth is
\* joined to the second through the third, and a row of a missing note is cached
C26_Witness ==
    /\ graph.called /\ graph.op = "get_graph"
    /\ Len(graph.nodes) = 4
    /\ graph.nodes[1].cluster = 0 /\ graph.nodes[2].cluster = 1
    /\ graph.nodes[3].cluster = 1 /\ graph.nodes[4].cluster = 1
    /\ <<graph.nodes[2].id, graph.nodes[4].id>> \notin LiveEdges
    /\ <<graph.nodes[4].id, graph.nodes[2].id>> \notin LiveEdges
    /\ \E r \in similarity_cache : r.note_id_b = MaxGraphNotes + 1

-----------------------------------------------------------------------------
(* db/migrations.rs run_all, called by DatabaseManager::initialize *)

\* the statement that fails in a run, if any: <<v, k>> is the k-th statement
\* of the batch of version v, and k past the batch is the INSERT INTO migrations
Failures ==
    {None} \cup UNION { {Some(<<MIGRATIONS[i].version, k>>) :
                            k \in 1..(MIGRATIONS[i].statements + 1)} :
                        i \in DOMAIN MIGRATIONS }

\* the number of times the application is started
MaxRuns == 3

\* SELECT COUNT(*) > 0 FROM migrations WHERE version = ?1
already_applied_never(db, m) == FALSE
already_applied(db, m) == m.version \in db.versions

\* execute_batch up to its k-th statement, every statement committed alone
Executed(m, k) == {o \in Objects(m) : o[2] < k}

\* the loop over MIGRATIONS from position i on
RECURSIVE RunFrom(_, _, _)
RunFrom(db, i, fail) ==
    IF i > Len(MIGRATIONS) THEN [db EXCEPT !.outcome = "Ok"]
    ELSE LET m == MIGRATIONS[i] IN
         IF already_applied(db, m) THEN RunFrom(db, i + 1, fail)
         ELSE IF fail.some /\ fail.v[1] = m.version /\ fail.v[2] <= m.statements + 1
         THEN [db EXCEPT !.objects = @ \cup Executed(m, fail.v[2]),
                         !.outcome = "DatabaseError"]
         ELSE RunFrom([db EXCEPT !.objects = @ \cup Objects(m),
                                 !.versions = @ \cup {m.version},
                                 !.applied = @ + 1,
                                 !.log = Append(@, m.version)],
                      i + 1, fail)

\* run_all on the write connection
run_all(fail) ==
    /\ MutexFree(write_holder)
    /\ store.runs < MaxRuns
    /\ store' = RunFrom([store EXCEPT !.called = TRUE, !.migrations_table = TRUE,
                                      !.outcome = "none", !.applied = 0, !.log = <<>>,
                                      !.runs = @ + 1],
                        1, fail)
    /\ UNCHANGED <<DbVars, OtherVars, write_holder, pc, loc, result, WatchVars,
                   HandlerVars, search, LinkVars, graph, snapshot, locks>>

InitMigrations ==
    /\ notes = <<>>
    /\ notes_fts = EmptyBag
    /\ embeddings = <<>>
    /\ vec_embeddings = <<>>
    /\ similarity_cache = {}
    /\ settings = DefaultSettings
    /\ files = [p \in AllPaths |-> None]
    /\ nextId = 1
    /\ \E file \in {Fresh, Migrated} : InitThreadsOn(file)
    /\ InitWatcher

NextMigrations == \E fail \in Failures : run_all(fail)

SpecMigrations == InitMigrations /\ [][NextMigrations]_vars

Contents_of(db) == <<db.migrations_table, db.versions, db.objects>>

\* C27: on a fully migrated database run_all returns 0 and changes nothing;
\* on a fresh database it applies the versions 1..5 in ascending order, each
\* once.
C27_RunAllIdempotent ==
    [][\A fail \in Failures :
         /\ (Contents_of(store) = Contents_of(Migrated) /\ run_all(fail))
              => /\ store'.outcome = "Ok" /\ store'.applied = 0
                 /\ Contents_of(store') = Contents_of(store)
         /\ (Contents_of(store) = Contents_of(Fresh) /\ run_all(None))
              => /\ store'.outcome = "Ok" /\ store'.applied = 5
                 /\ store'.log = <<1, 2, 3, 4, 5>>
                 /\ Contents_of(store') = Contents_of(Migrated)]_vars

\* a run on a fresh file has applied the five versions
C27_Witness ==
    /\ store.called /\ store.outcome = "Ok"
    /\ store.log = <<1, 2, 3, 4, 5>>

\* C28: when the batch of version v fails, run_all returns a DatabaseError,
\* the migrations table records no version from v on, and no statement of v
\* stays applied.
C28_FailedBatchRolledBack ==
    [][\A i \in DOMAIN MIGRATIONS :
         LET m == MIGRATIONS[i] IN
         \A k \in 1..m.statements :
         (/\ ~already_applied(store, m)
          /\ run_all(Some(<<m.version, k>>)))
           => /\ store'.outcome = "DatabaseError"
              /\ \A u \in store'.versions : u < m.version
              /\ store'.objects \cap Objects(m) = store.objects \cap Objects(m)]_vars

-----------------------------------------------------------------------------
(* index_note called again with the arguments of the call before *)

\* the task of lib.rs that calls index_note(note_id, content) and then
\* rebuild_cache_for_note; snapshot keeps the arguments, the two embedding
\* tables as the task finds them, and whether the task before it ran
\* index_note with the same arguments
index_task(p, note_id, content) ==
    /\ p \in TaskThreads /\ pc[p] = "idle"
    /\ loc' = [loc EXCEPT ![p] = [DefaultLoc EXCEPT !.id = note_id, !.content = content]]
    /\ Goto(p, "idx1")
    /\ snapshot' = [called |-> TRUE, id |-> note_id, content |-> content,
                    embeddings |-> embeddings, vec_embeddings |-> vec_embeddings,
                    repeated |-> /\ snapshot.called
                                 /\ snapshot.id = note_id
                                 /\ snapshot.content = content]
    /\ UNCHANGED <<DbVars, OtherVars, write_holder, result, WatchVars, HandlerVars,
                   search, LinkVars, graph, store, locks>>

InitIndexTwice ==
    /\ \E contentOf \in [1..InitNotes -> LongContents], indexed \in SUBSET (1..InitNotes) :
           Populated(contentOf, indexed)
    /\ similarity_cache = {}

NextIndexTwice ==
    \/ \E p \in SpawnSlots, id \in 1..(InitNotes + 1), c \in LongContents :
           index_task(p, id, c)
    \/ \E p \in TaskThreads : index_upsert(p)
    \/ \E p \in TaskThreads : index_vec_delete(p)
    \/ \E p \in TaskThreads : index_vec_insert(p)
    \/ \E p \in TaskThreads : rebuild_read(p)
    \/ \E p \in TaskThreads : rebuild_delete(p)
    \/ \E p \in TaskThreads : rebuild_insert(p)

SpecIndexTwice == InitIndexTwice /\ [][NextIndexTwice]_vars

\* C29: index_note(id, c) called twice in a row leaves embeddings and the
\* dense index as the first call left them: one row for id in each table,
\* holding the bytes of the vector of c.
C29_IndexNoteIdempotent ==
    (snapshot.called /\ snapshot.repeated /\ \A p \in TaskThreads : ~InIndexNote(p)) =>
        /\ embeddings = snapshot.embeddings
        /\ vec_embeddings = snapshot.vec_embeddings
        /\ snapshot.id \in DOMAIN notes =>
              /\ snapshot.id \in DOMAIN embeddings
              /\ snapshot.id \in DOMAIN vec_embeddings
              /\ embeddings[snapshot.id]
                   = embedding_to_blob(embed_text(snapshot.content))
              /\ vec_embeddings[snapshot.id] = embeddings[snapshot.id]

\* the second of two equal calls has returned and the id has its rows
C29_Witness ==
    /\ snapshot.called /\ snapshot.repeated
    /\ \E p \in TaskThreads : pc[p] = "rb_read"
    /\ snapshot.id \in DOMAIN embeddings
    /\ snapshot.embeddings # <<>>

-----------------------------------------------------------------------------
(* Two background tasks of create_note / update_note running together *)

ConsistentCache(emb) ==
    {EdgeRow(p, cosine_similarity(blob_to_embedding(emb[p[1]]),
                                  blob_to_embedding(emb[p[2]]))) :
       p \in UnorderedPairs(DOMAIN emb)}

\* every note is embedded and similarity_cache holds the row of every pair
InitTasks ==
    /\ \E contentOf \in [1..InitNotes -> LongContents] :
           Populated(contentOf, 1..InitNotes)
    /\ similarity_cache = ConsistentCache(embeddings)

NextTasks ==
    \/ \E p \in TaskThreads, id \in 1..InitNotes, c \in LongContents : index_task(p, id, c)
    \/ \E p \in TaskThreads : index_upsert(p)
    \/ \E p \in TaskThreads : index_vec_delete(p)
    \/ \E p \in TaskThreads : index_vec_insert(p)
    \/ \E p \in TaskThreads : rebuild_read(p)
    \/ \E p \in TaskThreads : rebuild_delete(p)
    \/ \E p \in TaskThreads : rebuild_insert(p)

SpecTasks == InitTasks /\ [][NextTasks]_vars

\* C30: once every background task has finished, similarity_cache holds, for
\* every pair of distinct embedded notes, exactly one row, and its similarity
\* is the cosine of the two vectors embeddings holds now.
C30_CacheConsistentWhenQuiet ==
    (\A p \in TaskThreads : pc[p] = "idle") =>
        \A p \in UnorderedPairs(DOMAIN embeddings) :
            /\ Cardinality({r \in similarity_cache : SameKey(r, p)}) = 1
            /\ \A r \in similarity_cache :
                  SameKey(r, p) =>
                    r.similarity = cosine_similarity(blob_to_embedding(embeddings[p[1]]),
                                                     blob_to_embedding(embeddings[p[2]]))

-----------------------------------------------------------------------------
(* rebuild_cache_for_note alone, read by a reader on a pooled connection *)

\* notes 1..n of which all, or all but one, are embedded, and a cache that
\* holds the row of every pair of embedded notes
InitRebuildOne ==
    /\ \E n \in 0..MaxEmbedded, contentOf \in [1..MaxEmbedded -> LongContents],
          missing \in 0..MaxEmbedded :
          /\ missing <= n
          /\ notes = [i \in 1..n |->
                        [rowid |-> i, title |-> "T1", content |-> contentOf[i],
                         file_path |-> NoFile,
                         word_count |-> split_whitespace_count(contentOf[i])]]
          /\ \A i \in (n + 1)..MaxEmbedded : contentOf[i] = contentOf[1]
          /\ notes_fts = SetToBag({FtsRow(notes[i]) : i \in 1..n})
          /\ embeddings = [i \in (1..n) \ {missing} |->
                             embedding_to_blob(embed_text(contentOf[i]))]
    /\ vec_embeddings = embeddings
    /\ similarity_cache = ConsistentCache(embeddings)
    /\ settings = DefaultSettings
    /\ files = [p \in AllPaths |-> None]
    /\ nextId = Len(notes) + 1
    /\ InitThreads
    /\ InitWatcher

NextRebuildOne ==
    \/ \E p \in SpawnSlots, id \in 1..MaxEmbedded : call_rebuild_cache_for_note(p, id)
    \/ \E p \in SpawnSlots : rebuild_read(p)
    \/ \E p \in SpawnSlots : rebuild_delete(p)
    \/ \E p \in SpawnSlots : rebuild_insert(p)

SpecRebuildOne == InitRebuildOne /\ [][NextRebuildOne]_vars

\* C31: rebuild_cache_for_note(id) without another writer leaves one row for
\* id and each other embedded note and every other row as it was, and its
\* delete and inserts are one transaction: in no state that a reader can see
\* are the rows of id partly rebuilt.
C31_RebuildInOneTransaction ==
    /\ \A r \in similarity_cache :
          <<r.note_id_a, r.note_id_b>> \in UnorderedPairs(DOMAIN embeddings)
    /\ \A p \in UnorderedPairs(DOMAIN embeddings) :
          Cardinality({r \in similarity_cache : SameKey(r, p)}) = 1

-----------------------------------------------------------------------------
(* Indexing after create and update: the editor, its task, and the watcher *)

\* a content of one token and one of three, as in FileBodies
OrderContents == { <<"a">>, <<"a", "b", "c">> }

NextOrder ==
    \/ \E p \in EditorThreads, c \in OrderContents : cmd_create_note(p, "T1", c, NoFile)
    \/ \E p \in EditorThreads, id \in 1..MaxNotes, c \in OrderContents :
           cmd_update_note(p, id, None, Some(c))
    \/ \E p \in EditorThreads : update_write(p)
    \/ \E p \in EditorThreads, id \in 1..MaxNotes : cmd_delete_note(p, id)
    \/ \E p \in EditorThreads : remove_embedding_1(p)
    \/ \E p \in EditorThreads : remove_embedding_2(p)
    \/ \E p \in EditorThreads : delete_get(p)
    \/ \E p \in EditorThreads : delete_row(p)
    \/ \E p \in WatcherThreads, path \in Paths : process_file_change(p, path)
    \/ \E p \in WatcherThreads : import_read(p)
    \/ \E p \in WatcherThreads : import_update(p)
    \/ \E p \in WatcherThreads : update_write(p)
    \/ \E p \in WatcherThreads : import_create(p)
    \/ \E p \in WatcherThreads : watcher_lookup(p)
    \/ \E p \in SpawnSlots \cup WatcherThreads : index_upsert(p)
    \/ \E p \in SpawnSlots \cup WatcherThreads : index_vec_delete(p)
    \/ \E p \in SpawnSlots \cup WatcherThreads : index_vec_insert(p)
    \/ \E p \in SpawnSlots \cup WatcherThreads : rebuild_read(p)
    \/ \E p \in SpawnSlots \cup WatcherThreads : rebuild_delete(p)
    \/ \E p \in SpawnSlots \cup WatcherThreads : rebuild_insert(p)
    \/ \E path \in Paths, file \in FileTexts : file_write(path, file)

SpecOrder == Init /\ [][NextOrder]_vars

\* a step in which a command of the editor has stored content for note id
EditorStored(p, id, content) ==
    \/ /\ pc[p] = "idle" /\ pc'[p] = "idle"
       /\ id = nextId /\ nextId' = nextId + 1
       /\ notes'[id].file_path = NoFile /\ notes'[id].content = content
    \/ /\ pc[p] = "upd_write" /\ pc'[p] = "idle"
       /\ id = loc[p].id /\ content = loc[p].content

\* a step that starts a background task with index_note(id, content)
TaskStarted(id, content) ==
    \E b \in TaskThreads :
        /\ pc[b] = "idle" /\ pc'[b] = "idx1"
        /\ loc'[b].id = id /\ loc'[b].content = content

\* the editor starts a task exactly for content of at least 3 tokens
EditorIndexes ==
    \A p \in EditorThreads, id \in 1..MaxNotes, c \in OrderContents :
        EditorStored(p, id, c) =>
            IF NeedsIndex(c) THEN TaskStarted(id, c)
            ELSE \A b \in TaskThreads : pc'[b] = pc[b]

\* rebuild_cache_for_note starts when index_note has returned: in a task
\* only when it returned Ok
RebuildAfterIndex ==
    \A p \in TaskThreads \cup WatcherThreads :
        (pc[p] # "rb_read" /\ pc'[p] = "rb_read") =>
            /\ loc'[p].id = loc[p].id
            /\ \/ pc[p] = "idx3"
               \/ p \in WatcherThreads /\ pc[p] = "idx1"

\* C32: after a successful create_note or update_note that leaves content of
\* at least 3 tokens, index_note is invoked for the note, and
\* rebuild_cache_for_note only after that index_note has returned, and not at
\* all in the editor's task when index_note failed; for content of fewer
\* than 3 tokens neither is invoked.  (The watcher's next step after its
\* import decides by the content it has written.)
C32_IndexedAfterEveryWrite ==
    [][/\ EditorIndexes
       /\ RebuildAfterIndex
       /\ \A w \in WatcherThreads :
             (pc[w] = "w_lookup" /\ pc'[w] # "w_lookup") =>
                 (NeedsIndex(loc[w].content) <=> pc'[w] = "idx1")]_vars

\* C32 as the code has it: the watcher's next step after its import decides
\* by the note stored under the path at that moment, and indexes that note
C32_IndexedAfterEveryWriteAsStored ==
    [][/\ EditorIndexes
       /\ RebuildAfterIndex
       /\ \A w \in WatcherThreads :
             (pc[w] = "w_lookup" /\ pc'[w] # "w_lookup") =>
                 LET id == NoteIdByPath(notes, loc[w].path) IN
                 IF id # 0 /\ NeedsIndex(notes[id].content)
                 THEN /\ pc'[w] = "idx1"
                      /\ loc'[w].id = id /\ loc'[w].content = notes[id].content
                 ELSE pc'[w] = "idle"]_vars

\* the editor's task rebuilds after its index_note while the watcher, after
\* an import, is about to index the note stored under its path
C32_Witness ==
    /\ pc["b1"] = "rb_read"
    /\ pc["w"] = "idx1"
    /\ loc["w"].id \in DOMAIN notes
    /\ loc["w"].content = notes[loc["w"].id].content

-----------------------------------------------------------------------------
(* The watcher processing files that never change *)

\* a file whose stem is a plain title and one whose stem has surrounding
\* spaces
IdemPaths == {"x.md", " T1 .md"}

\* front matter without a title, with a title with surrounding spaces, with a
\* blank title
IdemTexts == [title : {NoTitle, " T1 ", "  "}, body : FileBodies]

InitIdem ==
    /\ notes = <<>>
    /\ notes_fts = EmptyBag
    /\ embeddings = <<>>
    /\ vec_embeddings = <<>>
    /\ similarity_cache = {}
    /\ settings = DefaultSettings
    /\ files \in [IdemPaths -> {Some(f) : f \in IdemTexts}]
    /\ nextId = 1
    /\ InitThreads
    /\ InitWatcher

NextIdem ==
    \/ \E p \in WatcherThreads, path \in IdemPaths : process_file_change(p, path)
    \/ \E p \in WatcherThreads : import_read(p)
    \/ \E p \in WatcherThreads : import_update(p)
    \/ \E p \in WatcherThreads : update_write(p)
    \/ \E p \in WatcherThreads : import_create(p)
    \/ \E p \in WatcherThreads : watcher_lookup(p)
    \/ \E p \in WatcherThreads : index_upsert(p)
    \/ \E p \in WatcherThreads : index_vec_delete(p)
    \/ \E p \in WatcherThreads : index_vec_insert(p)
    \/ \E p \in WatcherThreads : rebuild_read(p)
    \/ \E p \in WatcherThreads : rebuild_delete(p)
    \/ \E p \in WatcherThreads : rebuild_insert(p)

SpecIdem == InitIdem /\ [][NextIdem]_vars

\* C33: the files never change and every note comes from the watcher, so a
\* path that already has its note is skipped by import_md_file: the import
\* returns there (Ok(false)) and goes on to no update, no indexing and no
\* event, for every file name and front-matter title.
C33_UnchangedFileSkipped ==
    [][\A p \in WatcherThreads :
          (pc[p] = "imp_read" /\ pc'[p] # "imp_read"
             /\ NoteIdByPath(notes, loc[p].path) # 0) =>
                pc'[p] = "idle"]_vars

\* the same for the paths whose stem has no surrounding spaces
C33_TrimmedStemSkipped ==
    [][\A p \in WatcherThreads :
          (pc[p] = "imp_read" /\ pc'[p] # "imp_read"
             /\ NoteIdByPath(notes, loc[p].path) # 0
             /\ trim(file_stem(loc[p].path)) = file_stem(loc[p].path)) =>
                pc'[p] = "idle"]_vars

-----------------------------------------------------------------------------
(* The handler thread of a watcher that is stopped or replaced *)

\* start_watching of another caller on the directory /empty while the first
\* watcher is stored, with its initial scan, which finds no file
ReplaceStep ==
    \/ watcher = Some(Sender) /\ start_watching("k2", "/empty")
    \/ start_stop("k2")
    \/ start_create("k2")
    \/ start_store("k2")
    \/ scan_walk("k2")
    \/ scan_loop("k2")

HandlerExit == \E p \in HandlerThreads : handler_disconnected(p)

\* the files change while the watcher is alive; a file is created before the
\* first note is, later x.md is written again or removed, which keeps the
\* note ids within MaxNotes
StopFs ==
    \/ \E path \in Paths, file \in LongFileTexts :
           (nextId = 1 \/ files[path].some) /\ fs_write(path, file)
    \/ \E path \in AllPaths \ Paths, file \in LongFileTexts \cap FileTexts :
           nextId = 1 /\ fs_write(path, file)
    \/ \E path \in Paths : fs_remove(path)
    \/ \E msg \in {WatchError} : waited > 0 /\ fs_other(msg)

NextStop ==
    \/ HandlerStep
    \/ Tick
    \/ StopFs
    \/ stop_watching("k1")
    \/ ReplaceStep
    \/ HandlerExit

\* every thread runs whenever it can, and time passes
SpecStop ==
    /\ InitDebounce
    /\ [][NextStop]_vars
    /\ WF_vars(HandlerStep \/ HandlerExit)
    /\ WF_vars(Tick)
    /\ WF_vars(ReplaceStep)

\* C34: once the watcher handle is dropped, by stop_watching or by a
\* start_watching that replaces the watcher, the handler thread of the dropped
\* watcher eventually leaves its loop, whatever messages were still in its
\* channel and whatever paths were pending.
C34_HandlerExits == (Sender \notin live) ~> (pc["h"] = "ended")

\* the handler thread has ended after another start_watching replaced its
\* watcher, with paths it had accepted and not processed
C34_Witness ==
    /\ pc["h"] = "ended"
    /\ watcher = Some(NewWatcher("k2", "/empty"))
    /\ pending_paths # {}

-----------------------------------------------------------------------------
(* compute_latent_links served from the cache, against the dense index as it
   is at the time of the call *)

\* what the call computes without the cache when the query returns rows
FreshLinks(c, rows) ==
    FilterLinks(Take(rows, FetchLimit(c.limit)), c.exclude, c.threshold, c.limit)

\* C35: a call served from the cache returns the list the same call would
\* compute without the cache against the dense index as it is now (rows),
\* whatever was indexed or deleted since the entry was stored.
C35_HitEqualsFresh ==
    [][\A c \in LinkCalls, rows \in LinkRows :
          (/\ ~FetchLimitOverflows(c.limit)
           /\ LruContains(link_cache, content_hash(TrackedContent))
           /\ compute_latent_links(TrackedContent, c.exclude, c.threshold, c.limit, rows))
            => latent'.links = FreshLinks(c, rows)]_vars

-----------------------------------------------------------------------------
(* The embeddings rows once the background tasks of the editor's commands
   have finished *)

\* C36: once every background indexing task has finished (and no command is
\* running), every row of embeddings holds the embedding of the current
\* content of its note, after updates whose tasks finish in any order and
\* after an update that leaves fewer than 3 tokens.
C36_EmbeddingsCurrentWhenQuiet ==
    (\A p \in TaskThreads \cup EditorThreads : pc[p] = "idle") =>
        \A id \in DOMAIN embeddings :
            /\ id \in DOMAIN notes
            /\ embeddings[id] = embedding_to_blob(embed_text(notes[id].content))

-----------------------------------------------------------------------------
(* The guards the services take.  A function is the sequence of its lock
   steps: acquire (acq) when a guard or a pooled connection is taken,
   release (rel) where it is dropped. *)

Acq(l) == <<"acq", l>>
Rel(l) == <<"rel", l>>

\* DatabaseManager.write_conn, EmbeddingService.session, a connection of
\* DatabaseManager.read_pool, LinkService.cache, FileWatcherService.watcher
Mutexes == {"writer", "inference", "cache", "watcher_state"}

\* get_note, get_note_by_file_path, get_graph, get_settings, fulltext_search,
\* semantic_search: one pooled connection, dropped at the return
read_locks == <<Acq("reader"), Rel("reader")>>

\* create_note, update_settings, remove_embedding: the write guard, dropped
\* at the return
write_locks == <<Acq("writer"), Rel("writer")>>

\* embed_text: embed_tokens locks the session for the inference
embed_text_locks == <<Acq("inference"), Rel("inference")>>

\* index_note: embed_text, then get_write_conn for the three statements
index_note_locks == embed_text_locks \o write_locks

\* rebuild_cache_for_note: the reads on a pooled connection, drop(conn), then
\* get_write_conn
rebuild_cache_for_note_keeping_conn ==
    <<Acq("reader"), Acq("writer"), Rel("writer"), Rel("reader")>>
rebuild_cache_for_note_locks ==
    <<Acq("reader"), Rel("reader"), Acq("writer"), Rel("writer")>>

\* the background task of create_note and update_note
task_locks == index_note_locks \o rebuild_cache_for_note_locks

\* NoteService::update_note and delete_note: get_note, then get_write_conn
update_note_locks == read_locks \o write_locks

\* do_reindex_all: the snapshot on a pooled connection, drop(conn), then
\* index_note for a note
reindex_all_locks == read_locks \o index_note_locks

\* compute_latent_links: a hit returns under the cache guard; a miss drops it,
\* embeds, queries on a pooled connection and locks the cache again for the
\* put while the connection is still held
latent_hit_locks == <<Acq("cache"), Rel("cache")>>
latent_miss_locks ==
    latent_hit_locks \o embed_text_locks
        \o <<Acq("reader"), Acq("cache"), Rel("cache"), Rel("reader")>>

\* import_md_file of a new file: get_note_by_file_path, then create_note
import_locks == read_locks \o write_locks

\* process_file_change for a new file: import_md_file, the lookup,
\* index_note, rebuild_cache_for_note
file_changed_locks ==
    import_locks \o read_locks \o index_note_locks \o rebuild_cache_for_note_locks

\* stop_watching: the state guard, dropped at the return
stop_watching_locks == <<Acq("watcher_state"), Rel("watcher_state")>>

\* start_watching: stop_watching, then the state guard taken to store the
\* watcher and held over the initial scan of one file until the return
start_watching_locks ==
    stop_watching_locks \o <<Acq("watcher_state")>> \o file_changed_locks
        \o <<Rel("watcher_state")>>

\* the functions each thread of the application runs
LockPrograms(t) ==
    CASE t = "e1" -> {update_note_locks, latent_hit_locks, latent_miss_locks}
      [] t = "b1" -> {task_locks}
      [] t = "r1" -> {reindex_all_locks}
      [] t = "h" -> {file_changed_locks}
      [] t = "k1" -> {start_watching_locks, stop_watching_locks}
      [] OTHER -> {stop_watching_locks}

LockThreads == DOMAIN locks

Holds(t, l) == l \in locks[t].held
Wants(t, l) == locks[t].todo # <<>> /\ Head(locks[t].todo) = Acq(l)

\* a mutex is free, the pool has an idle connection
Available(l) ==
    IF l = "reader"
    THEN PoolHasIdle({t \in LockThreads : Holds(t, "reader")})
    ELSE \A t \in LockThreads : ~Holds(t, l)

LockFrame ==
    UNCHANGED <<DbVars, OtherVars, write_holder, pc, loc, result, WatchVars,
                HandlerVars, search, LinkVars, graph, store, snapshot>>

\* the thread enters one of its functions
lock_begin(t, program) ==
    /\ locks[t].todo = <<>>
    /\ locks' = [locks EXCEPT ![t].todo = program]
    /\ LockFrame

\* Mutex::lock or Pool::get returns
lock_acquire(t) ==
    /\ \E l \in Mutexes \cup {"reader"} :
          /\ Wants(t, l) /\ Available(l)
          /\ locks' = [locks EXCEPT ![t] = [held |-> @.held \cup {l},
                                            todo |-> Tail(@.todo)]]
    /\ LockFrame

\* Pool::get times out: the function returns the error and drops its guards
lock_timeout(t) ==
    /\ Wants(t, "reader") /\ ~Available("reader")
    /\ locks' = [locks EXCEPT ![t] = [held |-> {}, todo |-> <<>>]]
    /\ LockFrame

\* a guard or a pooled connection is dropped
lock_release(t) ==
    /\ \E l \in Mutexes \cup {"reader"} :
          /\ locks[t].todo # <<>> /\ Head(locks[t].todo) = Rel(l)
          /\ locks' = [locks EXCEPT ![t] = [held |-> @.held \ {l},
                                            todo |-> Tail(@.todo)]]
    /\ LockFrame

NextLocks ==
    \/ \E t \in LockThreads : \E program \in LockPrograms(t) : lock_begin(t, program)
    \/ \E t \in LockThreads : lock_acquire(t)
    \/ \E t \in LockThreads : lock_timeout(t)
    \/ \E t \in LockThreads : lock_release(t)

SpecLocks == Init /\ [][NextLocks]_vars

\* the thread waits for a mutex another thread (or itself) holds
BlockedOn(t, u) == \E l \in Mutexes : Wants(t, l) /\ Holds(u, l)

\* the threads reached from T by n steps from a waiting thread to the holder
\* of the mutex it waits for; a chain of as many steps as there are threads
\* has entered a cycle
RECURSIVE WaitChain(_, _)
WaitChain(T, n) ==
    IF n = 0 \/ T = {} THEN T
    ELSE WaitChain({u \in LockThreads : \E t \in T : BlockedOn(t, u)}, n - 1)

\* C37: no set of threads waits cyclically on the five locks; no thread
\* acquires the watcher-state mutex while it holds one of the others; no thread
\* waits for the writer mutex while it holds a pooled connection or the
\* inference mutex.
C37_NoDeadlock ==
    /\ \A t \in LockThreads : WaitChain({t}, Cardinality(LockThreads)) = {}
    /\ \A t \in LockThreads : Wants(t, "watcher_state") => locks[t].held = {}
    /\ \A t \in LockThreads :
          Wants(t, "writer") => ~Holds(t, "reader") /\ ~Holds(t, "inference")

\* a start_watching holds the watcher-state mutex over its scan and waits for
\* the writer mutex a background task holds, while a stop_watching waits for
\* the watcher-state mutex
C37_Witness ==
    /\ Holds("k1", "watcher_state") /\ Wants("k1", "writer")
    /\ Holds("b1", "writer")
    /\ Wants("k2", "watcher_state")

-----------------------------------------------------------------------------
(* Two callers of update_note on the same notes: one supplies only a title,
   the other only a content *)

NewTitles == {"T1", "T2"}

NextTwoUpdates ==
    \/ \E c \in ShortContents : cmd_create_note("v", "T1", c, NoFile)
    \/ \E id \in 1..MaxNotes, t \in NewTitles : cmd_update_note("e1", id, Some(t), None)
    \/ \E id \in 1..MaxNotes, c \in ShortContents : cmd_update_note("v", id, None, Some(c))
    \/ \E p \in CommandThreads : update_write(p)

SpecTwoUpdates == Init /\ [][NextTwoUpdates]_vars

\* the update_note call of p returns
UpdateReturns(p) == pc[p] = "upd_write" /\ pc'[p] = "idle" /\ loc[p].id \in DOMAIN notes

\* C38: of two concurrent update_note calls on a note, one with only a title
\* and one with only a content, both take effect: the call with the content
\* returns having stored its content, with the matching word_count, next to
\* the title stored by then, and the call with the title returns having stored
\* its title next to the content stored by then; so after both have returned
\* the note has the new title and the new content.
C38_BothUpdatesTakeEffect ==
    [][/\ UpdateReturns("v") =>
            LET id == loc["v"].id IN
            /\ notes'[id].content = loc["v"].content
            /\ notes'[id].word_count = split_whitespace_count(loc["v"].content)
            /\ notes'[id].title = notes[id].title
       /\ UpdateReturns("e1") =>
            LET id == loc["e1"].id IN
            /\ notes'[id].title = loc["e1"].title
            /\ notes'[id].content = notes[id].content]_vars

-----------------------------------------------------------------------------
(* reindex_all next to readers that can exhaust the pool and an editor that
   deletes notes: every way reindex_all returns *)

PoolReaders == {"s1", "s2", "s3", "s4"}

\* the readers take their connections in turn and return them in reverse
ReaderOrder == <<"s1", "s2", "s3", "s4">>
ReaderIndex(p) == CHOOSE i \in DOMAIN ReaderOrder : ReaderOrder[i] = p
ReadersBefore(p) == {ReaderOrder[i] : i \in 1..(ReaderIndex(p) - 1)}
ReadersAfter(p) == {ReaderOrder[i] : i \in (ReaderIndex(p) + 1)..Len(ReaderOrder)}

NextReindexGuard ==
    \/ NextReindex
    \/ \E p \in ReindexThreads : reindex_snapshot_fails(p)
    \/ \E p \in PoolReaders : ReadersBefore(p) \subseteq read_holders /\ get_read_conn(p)
    \/ \E p \in PoolReaders : ReadersAfter(p) \cap read_holders = {} /\ drop_read_conn(p)

SpecReindexGuard == InitReindex /\ [][NextReindexGuard]_vars

\* C39: whenever a reindex_all call that acquired the guard returns, with Ok
\* or with the error of the snapshot or of index_note, reindexing is false
\* again; with no reindex in progress the flag is false and a reindex_all call
\* acquires the guard instead of failing with AlreadyRunning.
C39_GuardReleased ==
    /\ []((\A p \in ReindexThreads : pc[p] = "idle") => reindexing = FALSE)
    /\ [][\A p \in ReindexThreads :
             /\ (pc[p] # "idle" /\ pc'[p] = "idle") => reindexing' = FALSE
             /\ (pc[p] = "idle" /\ progress'[p].calls > progress[p].calls
                   /\ \A q \in ReindexThreads : pc[q] = "idle")
                  => pc'[p] = "rx_snap"]_vars

\* a reindex_all has returned the error of its snapshot (no note was deleted
\* and nothing was indexed) and a later call has acquired the guard
C39_Witness ==
    /\ result["r1"] = "DatabaseError"
    /\ DOMAIN notes = 1..InitNotes
    /\ embeddings = <<>>
    /\ pc["r2"] = "rx_snap" /\ reindexing

-----------------------------------------------------------------------------
(* The handler thread after stop_watching has returned *)

\* C40: once stop_watching has returned (the watcher and its sender are
\* dropped), no step creates, updates or deletes a note or its embedding, and
\* the handler thread starts process_file_change on no further path.
C40_HandlerQuietAfterStop ==
    [][(Sender \notin live) =>
          /\ notes' = notes
          /\ embeddings' = embeddings /\ vec_embeddings' = vec_embeddings
          /\ \A p \in HandlerThreads :
                pc'[p] \in {"imp_read", "wdel_lookup"} => pc'[p] = pc[p]]_vars

====
